---- MODULE Spec2Model ----
(***************************************************************************)
(* Traffic_Control: the traffic-light state machine and its controller     *)
(* (src/src/traffic_light.py), the event pipeline (src/src/event_system.py)*)
(* the vehicle kinetics (src/src/vehicles.py) and the orchestrator's frame *)
(* (src/main.py), as state machines.                                       *)
(*                                                                         *)
(* Time is counted in whole simulated seconds, scores in points.           *)
(*                                                                         *)
(* Specifications:                                                         *)
(*   SpecLights   the operations of the lights and of their controller     *)
(*   SpecEvents   emit_event of every kind over a game_state in mid-game   *)
(*   SpecVehicle  update(dt, can_move) of one vehicle                      *)
(*   SpecGame     Game.run: frames, clicks on the lights, the pause key    *)
(*   Spec         the frames of a game with events emitted between them    *)
(*   SpecCongestion  check_congestion over lists of waiting vehicles       *)
(*   SpecSpatial  the light gates, the following gates, the collision tests*)
(*   SpecFrames   frames over vehicles at their stop points and in queues   *)
(*   SpecLevels   frames in which the 20th vehicle leaves the screen        *)
(*   SpecSession  a game played to its end, halted, and started again      *)
(*   SpecCommands the commands of a player on a light in either mode       *)
(*   SpecLog      the log at its capacity and the notifications over time   *)
(*   SpecPowerUps frames of a game in which power-ups are collected         *)
(*   SpecApproach one bus driven frame by frame, in half seconds            *)
(*   SpecCycle    the controller updated in every frame, and nothing else   *)
(***************************************************************************)
EXTENDS Integers, Sequences, FiniteSets, TLC

VARIABLES
    lights,         \* TrafficLightController.traffic_lights: id -> TrafficLight
    last,           \* the operation that produced the current state
    game_state,     \* the game_state dict shared by the handlers
    event,          \* the GameEvent returned by the last emit_event
    dispatch,       \* the handlers the last event was offered to / processed by
    event_log,      \* LoggingHandler.event_log
    notifications,  \* EventSystem.notifications
    ticks,          \* pygame.time.get_ticks(), in milliseconds
    vehicles,       \* Game.vehicles, a list of Vehicle
    spawn_timer,    \* Game.spawn_timer
    spawn_interval, \* Game.spawn_interval, in tenths of a second
    spawned,        \* the number of vehicles created so far, the identity of the next
    paused,         \* Game.paused
    game_over,      \* Game.game_over
    verdict         \* the value returned by the last call of a spatial check

lightVars == <<lights>>
eventVars == <<game_state, event, dispatch, event_log, notifications, ticks>>
gameVars == <<spawn_timer, spawn_interval, spawned, paused, game_over>>
vars == <<lights, last, game_state, event, dispatch, event_log, notifications,
          ticks, vehicles, spawn_timer, spawn_interval, spawned, paused,
          game_over, verdict>>

-----------------------------------------------------------------------------
(* Bounds of the model                                                     *)

\* the delta-times given to the lights are 2, 4, .. 2 * MaxDt seconds
MaxDt == 2

\* the events emitted in one run of the event system
MaxEmits == 2

\* the delta-times given to a single vehicle are 0 .. MaxVehicleDt seconds
MaxVehicleDt == 2

\* a vehicle is followed while it has waited at most this long, in seconds
MaxWaitingTime == 3

\* a fast car is followed while its jitter has moved it at most this far, in px
MaxDrift == 2

\* the frames of a game last 2, 4 .. 2 * MaxFrameDt seconds
MaxFrameDt == 1

\* a game is followed for this many seconds of pygame's clock
MaxSeconds == 4

\* a game is followed while it holds at most this many vehicles
MaxVehicles == 3
MaxStopped == 16
MaxMoving == 1

\* the positions tried lie within MaxOffset of a stop point
MaxOffset == 1

LightDts == {2 * k : k \in 1..MaxDt}

\* one statement after another: F of the value of x
Then(x, F(_)) == CHOOSE r \in {F(v) : v \in {x}} : TRUE

\* Python's max and min
Max(a, b) == IF a >= b THEN a ELSE b
Min(a, b) == IF a <= b THEN a ELSE b

-----------------------------------------------------------------------------
(* Traffic lights: src/src/traffic_light.py                                *)

\* setup_intersection: two lights per axis, in the order they are added
HorizontalLights == {"h1", "h2"}
VerticalLights == {"v1", "v2"}
TrafficLights == HorizontalLights \cup VerticalLights

\* green_duration=6.0, yellow_duration=2.0 (default), red_duration=6.0
GREEN_DURATION == 6
YELLOW_DURATION == 2
RED_DURATION == 6

StateNames == {"RED", "YELLOW", "GREEN"}

\* GreenState / YellowState / RedState .can_pass
StateCanPass(s) == s = "GREEN"

\* GreenState / YellowState / RedState .get_duration
GetDuration(s) ==
    CASE s = "GREEN" -> GREEN_DURATION
      [] s = "YELLOW" -> YELLOW_DURATION
      [] s = "RED" -> RED_DURATION

\* a next_state that leaves Green for Red, skipping Yellow
NextStateSkipsYellow(s) ==
    CASE s = "GREEN" -> "RED"
      [] s = "YELLOW" -> "RED"
      [] s = "RED" -> "GREEN"

\* GreenState / YellowState / RedState .next_state
NextState(s) ==
    CASE s = "GREEN" -> "YELLOW"
      [] s = "YELLOW" -> "RED"
      [] s = "RED" -> "GREEN"

\* TrafficLight.__init__: RedState, on_enter (time_in_state = 0), automatic
NewTrafficLight ==
    [state |-> "RED", time_in_state |-> 0, manual_override |-> FALSE]

\* TrafficLight.change_state: on_exit, replace the state, on_enter resets the time
ChangeState(light, s) ==
    [light EXCEPT !.state = s, !.time_in_state = 0]

\* an update that transitions only once the duration is exceeded
StateUpdateStrict(light, dt) ==
    LET t == light.time_in_state + dt
    IN  IF t > GetDuration(light.state)
        THEN ChangeState([light EXCEPT !.time_in_state = t], NextState(light.state))
        ELSE [light EXCEPT !.time_in_state = t]

\* TrafficLightState.update: accumulate, then one transition when the
\* accumulated time reaches the duration of the current state
StateUpdate(light, dt) ==
    LET t == light.time_in_state + dt
    IN  IF t >= GetDuration(light.state)
        THEN ChangeState([light EXCEPT !.time_in_state = t], NextState(light.state))
        ELSE [light EXCEPT !.time_in_state = t]

\* an update that forgets the manual override
TrafficLightUpdateIgnoresManual(light, dt) == StateUpdate(light, dt)

\* TrafficLight.update: delegated to the state unless manual_override
TrafficLightUpdate(light, dt) ==
    IF ~light.manual_override THEN StateUpdate(light, dt) ELSE light

\* TrafficLight.can_pass
CanPass(light) == StateCanPass(light.state)

\* TrafficLight.toggle_manual_override
ToggleManualOverride(light) ==
    [light EXCEPT !.manual_override = ~light.manual_override]

\* a command that does not look at the mode of the light
ForceStateInAnyMode(light, s) == ChangeState(light, s)

\* TrafficLight.force_green / force_red / force_yellow
ForceState(light, s) ==
    IF light.manual_override THEN ChangeState(light, s) ELSE light

\* TrafficLight.cycle_state
CycleState(light) ==
    IF light.manual_override THEN ChangeState(light, NextState(light.state)) ELSE light

\* an inner loop that stops after the first vertical light
ForceFirstVerticalRed(ls) ==
    [l \in TrafficLights |->
        IF l = "v1" /\ ~ls[l].manual_override /\ StateCanPass(ls[l].state)
        THEN ChangeState(ls[l], "RED")
        ELSE ls[l]]

\* the inner loop of coordinate_lights for one horizontal light
ForceVerticalRed(ls) ==
    [l \in TrafficLights |->
        IF l \in VerticalLights /\ ~ls[l].manual_override /\ CanPass(ls[l])
        THEN ChangeState(ls[l], "RED")
        ELSE ls[l]]

\* a coordination that does not look at the horizontal lights
CoordinateLightsWhateverHorizontal(ls) == ForceVerticalRed(ls)

\* a coordination that also takes the green of a vertical light held in
\* manual mode
CoordinateLightsOverManual(ls) ==
    IF \E h \in HorizontalLights : CanPass(ls[h])
    THEN [l \in TrafficLights |->
            IF l \in VerticalLights /\ CanPass(ls[l])
            THEN ChangeState(ls[l], "RED")
            ELSE ls[l]]
    ELSE ls

\* TrafficLightController.coordinate_lights: every automatic horizontal light
\* that lets pass forces every automatic vertical light that lets pass to red
CoordinateLights(ls) ==
    IF \E h \in HorizontalLights : ~ls[h].manual_override /\ CanPass(ls[h])
    THEN ForceVerticalRed(ls)
    ELSE ls

\* TrafficLightController.update
ControllerUpdate(ls, dt) ==
    CoordinateLights([l \in TrafficLights |-> TrafficLightUpdate(ls[l], dt)])

-----------------------------------------------------------------------------
(* Vehicles as the event handlers see them: src/src/vehicles.py            *)

\* VehicleFactory.create_vehicle: the vehicle classes
Species == {"car", "fast_car", "bus", "emergency", "truck"}

\* None where a vehicle is expected
NoVehicle == [id |-> 0, species |-> "none"]

\* Vehicle.check_priority: overridden to True by EmergencyVehicle only
CheckPriority(species) == species = "emergency"

\* vehicle.has_priority, set by Vehicle.__init__ from check_priority
HasPriority(v) == CheckPriority(v.species)

-----------------------------------------------------------------------------
(* Vehicle kinetics: src/src/vehicles.py. Speeds in px/s, positions in px. *)

\* Game.__init__: the size of the screen
WIDTH == 1000
HEIGHT == 600

Directions == {"left", "right", "up", "down"}

\* <Species>.get_base_speed
GetBaseSpeed(species) ==
    CASE species = "car" -> 100
      [] species = "fast_car" -> 150
      [] species = "bus" -> 60
      [] species = "emergency" -> 180
      [] species = "truck" -> 50

\* <Species>.get_max_speed
GetMaxSpeed(species) ==
    CASE species = "car" -> 150
      [] species = "fast_car" -> 250
      [] species = "bus" -> 100
      [] species = "emergency" -> 200
      [] species = "truck" -> 80

\* <Species>.get_acceleration
GetAcceleration(species) ==
    CASE species = "car" -> 80
      [] species = "fast_car" -> 150
      [] species = "bus" -> 40
      [] species = "emergency" -> 200
      [] species = "truck" -> 30

\* <Species>.get_size: (length, width)
GetSize(species) ==
    CASE species = "car" -> <<50, 30>>
      [] species = "fast_car" -> <<55, 32>>
      [] species = "bus" -> <<85, 38>>
      [] species = "emergency" -> <<60, 35>>
      [] species = "truck" -> <<110, 40>>

\* Vehicle.__init__
NewVehicle(id, species, x, y, direction, lane) ==
    [id |-> id, species |-> species, direction |-> direction, lane |-> lane,
     x |-> x, y |-> y, speed |-> GetBaseSpeed(species),
     stopped |-> FALSE, waiting_time |-> 0]

\* Game.spawn_vehicle: the spawn position and lane of a direction
SpawnVehicle(id, species, direction) ==
    CASE direction = "right" ->
            NewVehicle(id, species, -50, (HEIGHT \div 2) - 30, direction, 0)
      [] direction = "left" ->
            NewVehicle(id, species, WIDTH + 50, (HEIGHT \div 2) + 30, direction, 1)
      [] direction = "down" ->
            NewVehicle(id, species, (WIDTH \div 2) - 30, -50, direction, 2)
      [] direction = "up" ->
            NewVehicle(id, species, (WIDTH \div 2) + 30, HEIGHT + 50, direction, 3)

\* the random draws of one Vehicle.update: the lateral jitter of a fast car
\* (0 when the 1% draw fails), the 0.2% stop and the 10% resume draw of a bus
NoDraws == [jitter |-> 0, bus_stops |-> FALSE, bus_resumes |-> FALSE]

\* FastCar.special_behavior
FastCarSpecialBehavior(v, rnd) ==
    IF ~v.stopped /\ rnd.jitter # 0
    THEN IF v.direction \in {"left", "right"}
         THEN [v EXCEPT !.y = @ + rnd.jitter]
         ELSE [v EXCEPT !.x = @ + rnd.jitter]
    ELSE v

\* Bus.special_behavior: the occasional stop, then the resumption
BusSpecialBehavior(v, rnd) ==
    LET v1 == IF ~v.stopped /\ rnd.bus_stops
              THEN [v EXCEPT !.speed = 0, !.waiting_time = 0]
              ELSE v
    IN  IF v1.speed = 0 /\ v1.waiting_time > 1 /\ rnd.bus_resumes
        THEN [v1 EXCEPT !.speed = GetBaseSpeed("bus")]
        ELSE v1

\* <Species>.special_behavior
SpecialBehavior(v, dt, rnd) ==
    CASE v.species = "fast_car" -> FastCarSpecialBehavior(v, rnd)
      [] v.species = "bus" -> BusSpecialBehavior(v, rnd)
      [] OTHER -> v

\* an acceleration that is not capped at the maximum speed
AccelerateUncapped(v, dt) ==
    IF v.speed < GetMaxSpeed(v.species)
    THEN [v EXCEPT !.speed = v.speed + GetAcceleration(v.species) * dt]
    ELSE v

\* Vehicle.accelerate
Accelerate(v, dt) ==
    IF v.speed < GetMaxSpeed(v.species)
    THEN [v EXCEPT !.speed = Min(v.speed + GetAcceleration(v.species) * dt,
                                 GetMaxSpeed(v.species))]
    ELSE v

\* Vehicle.decelerate, and Truck.decelerate with the factor 1.5
Decelerate(v, dt) ==
    LET braking == IF v.species = "truck"
                   THEN (GetAcceleration(v.species) * 3 * dt) \div 2
                   ELSE GetAcceleration(v.species) * 2 * dt
    IN  IF v.speed > 0
        THEN [v EXCEPT !.speed = Max(v.speed - braking, 0)]
        ELSE v

\* Vehicle.move
Move(v, dt) ==
    CASE v.direction = "right" -> [v EXCEPT !.x = @ + v.speed * dt]
      [] v.direction = "left" -> [v EXCEPT !.x = @ - v.speed * dt]
      [] v.direction = "down" -> [v EXCEPT !.y = @ + v.speed * dt]
      [] v.direction = "up" -> [v EXCEPT !.y = @ - v.speed * dt]

\* Vehicle.update: special behaviour, speed, move (post_move_behavior is empty)
VehicleUpdate(v, dt, can_move, rnd) ==
    LET v1 == SpecialBehavior(v, dt, rnd)
        v2 == IF can_move
              THEN [Accelerate(v1, dt) EXCEPT !.stopped = FALSE, !.waiting_time = 0]
              ELSE [Decelerate(v1, dt) EXCEPT !.stopped = TRUE,
                                              !.waiting_time = @ + dt]
    IN  Move(v2, dt)

\* Vehicle.update(0.5, can_move): a frame of half a second. Every speed of a
\* bus is a multiple of 20 px/s, so each quotient below is exact for a bus;
\* waiting_time is counted in half seconds.

\* Bus.special_behavior, waiting_time > 1.0 being more than two half seconds
BusSpecialBehaviorHalfSecond(v, rnd) ==
    LET v1 == IF ~v.stopped /\ rnd.bus_stops
              THEN [v EXCEPT !.speed = 0, !.waiting_time = 0]
              ELSE v
    IN  IF v1.speed = 0 /\ v1.waiting_time > 2 /\ rnd.bus_resumes
        THEN [v1 EXCEPT !.speed = GetBaseSpeed("bus")]
        ELSE v1

\* Vehicle.accelerate(0.5)
AccelerateHalfSecond(v) ==
    IF v.speed < GetMaxSpeed(v.species)
    THEN [v EXCEPT !.speed = Min(v.speed + (GetAcceleration(v.species) \div 2),
                                 GetMaxSpeed(v.species))]
    ELSE v

\* Vehicle.decelerate(0.5): acceleration * 2 * dt
DecelerateHalfSecond(v) ==
    IF v.speed > 0
    THEN [v EXCEPT !.speed = Max(v.speed - GetAcceleration(v.species), 0)]
    ELSE v

\* Vehicle.move(0.5)
MoveHalfSecond(v) ==
    CASE v.direction = "right" -> [v EXCEPT !.x = @ + (v.speed \div 2)]
      [] v.direction = "left" -> [v EXCEPT !.x = @ - (v.speed \div 2)]
      [] v.direction = "down" -> [v EXCEPT !.y = @ + (v.speed \div 2)]
      [] v.direction = "up" -> [v EXCEPT !.y = @ - (v.speed \div 2)]

\* Vehicle.update(0.5, can_move) of a bus
VehicleUpdateHalfSecond(v, can_move, rnd) ==
    LET v1 == BusSpecialBehaviorHalfSecond(v, rnd)
        v2 == IF can_move
              THEN [AccelerateHalfSecond(v1) EXCEPT !.stopped = FALSE,
                                                    !.waiting_time = 0]
              ELSE [DecelerateHalfSecond(v1) EXCEPT !.stopped = TRUE,
                                                    !.waiting_time = @ + 1]
    IN  MoveHalfSecond(v2)

\* Vehicle.is_off_screen, margin = 100
IsOffScreen(v, screen_width, screen_height) ==
    \/ v.x < -100
    \/ v.x > screen_width + 100
    \/ v.y < -100
    \/ v.y > screen_height + 100

-----------------------------------------------------------------------------
(* Event pipeline: src/src/event_system.py                                 *)

\* a formatted message: the text around the number, and the number
Message(text, amount) == [text |-> text, amount |-> amount]
NoMessage == Message("", 0)

\* GameEvent.response = {}
NoResponse ==
    [message |-> NoMessage, severity |-> "", penalty |-> 0, points |-> 0,
     duration |-> 0, waiting_vehicles |-> 0]

\* the payload of an event; a key that is absent holds the value on the right
NoData ==
    [vehicle1 |-> NoVehicle, vehicle2 |-> NoVehicle, vehicle |-> NoVehicle,
     type |-> "none", level |-> "absent", waiting_vehicles |-> 0,
     remove_vehicles |-> <<>>, clear_vehicles |-> FALSE]

\* GameEvent.__init__
GameEvent(event_type, data) ==
    [event_type |-> event_type, data |-> data, handled |-> FALSE,
     response |-> NoResponse]

\* Game.__init__: the game_state dict
NewGameState ==
    [score |-> 0, lives |-> 5, level |-> 1, vehicles_passed |-> 0,
     collisions |-> 0, violations |-> 0, time_scale |-> 100,
     power_up_duration |-> 0, score_multiplier |-> 100,
     multiplier_duration |-> 0]

\* EventSystem.__init__: the chain, in set_next order
HandlerChain ==
    <<"CollisionHandler", "TrafficViolationHandler", "ScoreHandler",
      "PowerUpHandler", "CongestionHandler", "LoggingHandler">>

\* LoggingHandler.process keeps the last 100 events
LOG_CAPACITY == 100

\* the display time of a notification, in milliseconds
NOTIFICATION_DURATION == 2000

\* <Handler>.can_handle
CanHandle(h, ev) ==
    CASE h = "CollisionHandler" -> ev.event_type = "collision"
      [] h = "TrafficViolationHandler" -> ev.event_type = "traffic_violation"
      [] h = "ScoreHandler" ->
            ev.event_type \in {"vehicle_passed", "smooth_flow", "perfect_timing"}
      [] h = "PowerUpHandler" -> ev.event_type = "power_up"
      [] h = "CongestionHandler" -> ev.event_type = "congestion"
      [] h = "LoggingHandler" -> TRUE

\* a collision penalty that ignores the priority of the second vehicle
CollisionPenaltyFirstOnly(v1, v2) == IF HasPriority(v1) THEN 300 ELSE 100

\* CollisionHandler.process: the penalty
CollisionPenalty(v1, v2) ==
    IF HasPriority(v1) \/ HasPriority(v2) THEN 300 ELSE 100

\* a score update without the clamp at 0
PenalizeUnclamped(score, penalty) == score - penalty

\* max(0, score - penalty)
Penalize(score, penalty) == Max(0, score - penalty)

\* a handler whose penalty grows with the collisions counted so far
ProcessCollisionEscalating(st) ==
    LET v1 == st.event.data.vehicle1
        v2 == st.event.data.vehicle2
        penalty == CollisionPenalty(v1, v2) * (st.game_state.collisions + 1)
    IN  IF v1 # NoVehicle /\ v2 # NoVehicle
        THEN [st EXCEPT
                !.game_state.score = Penalize(@, penalty),
                !.game_state.lives = @ - 1,
                !.game_state.collisions = @ + 1,
                !.event.data.remove_vehicles = <<v1, v2>>,
                !.event.response =
                    [NoResponse EXCEPT
                        !.penalty = penalty,
                        !.message = Message("Colision! -{penalty} puntos", penalty),
                        !.severity = IF penalty > 100 THEN "high" ELSE "medium"]]
        ELSE st

\* CollisionHandler.process; st is [game_state, event, event_log]
ProcessCollision(st) ==
    LET v1 == st.event.data.vehicle1
        v2 == st.event.data.vehicle2
        penalty == CollisionPenalty(v1, v2)
    IN  IF v1 # NoVehicle /\ v2 # NoVehicle
        THEN [st EXCEPT
                !.game_state.score = Penalize(@, penalty),
                !.game_state.lives = @ - 1,
                !.game_state.collisions = @ + 1,
                !.event.data.remove_vehicles = <<v1, v2>>,
                !.event.response =
                    [NoResponse EXCEPT
                        !.penalty = penalty,
                        !.message = Message("Colision! -{penalty} puntos", penalty),
                        !.severity = IF penalty > 100 THEN "high" ELSE "medium"]]
        ELSE st

\* a penalty table without the default for an unlisted subtype
ViolationPenaltyNoDefault(type) ==
    CASE type = "red_light" -> 50
      [] type = "speeding" -> 30
      [] type = "wrong_lane" -> 40
      [] type = "emergency_obstruction" -> 200
      [] OTHER -> 0

\* TrafficViolationHandler.process: penalties.get(violation_type, 25)
ViolationPenalty(type) ==
    CASE type = "red_light" -> 50
      [] type = "speeding" -> 30
      [] type = "wrong_lane" -> 40
      [] type = "emergency_obstruction" -> 200
      [] OTHER -> 25

\* a message table without the default for an unlisted subtype
ViolationTextNoDefault(type) ==
    CASE type = "red_light" -> "Semaforo en rojo ignorado! -{penalty} puntos"
      [] type = "speeding" -> "Exceso de velocidad! -{penalty} puntos"
      [] type = "wrong_lane" -> "Carril incorrecto! -{penalty} puntos"
      [] type = "emergency_obstruction" ->
            "Obstruccion a vehiculo de emergencia! -{penalty} puntos"
      [] OTHER -> ""

\* TrafficViolationHandler.process: messages.get(violation_type, 'Infraccion')
ViolationText(type) ==
    CASE type = "red_light" -> "Semaforo en rojo ignorado! -{penalty} puntos"
      [] type = "speeding" -> "Exceso de velocidad! -{penalty} puntos"
      [] type = "wrong_lane" -> "Carril incorrecto! -{penalty} puntos"
      [] type = "emergency_obstruction" ->
            "Obstruccion a vehiculo de emergencia! -{penalty} puntos"
      [] OTHER -> "Infraccion -{penalty} puntos"

\* TrafficViolationHandler.process
ProcessViolation(st) ==
    LET type == st.event.data.type
        penalty == ViolationPenalty(type)
    IN  [st EXCEPT
            !.game_state.score = Penalize(@, penalty),
            !.game_state.violations = @ + 1,
            !.event.response =
                [NoResponse EXCEPT
                    !.penalty = penalty,
                    !.message = Message(ViolationText(type), penalty),
                    !.severity = IF penalty > 100 THEN "high" ELSE "low"]]

\* an award that gives a bus the plain base points
VehiclePassedPointsFlat(v) == IF HasPriority(v) THEN 10 * 3 ELSE 10

\* ScoreHandler.process: the points of a vehicle_passed, base_points = 10
VehiclePassedPoints(v) ==
    IF HasPriority(v) THEN 10 * 3
    ELSE IF v.species = "bus" THEN 10 * 2
    ELSE 10

\* ScoreHandler.process: the message of a vehicle_passed
VehiclePassedText(v) ==
    IF HasPriority(v) THEN "Vehiculo de emergencia! +30 puntos"
    ELSE IF v.species = "bus" THEN "Autobus paso! +20 puntos"
    ELSE "+10 puntos"

\* ScoreHandler.process
ProcessScore(st) ==
    LET type == st.event.event_type
        v == st.event.data.vehicle
        points ==
            CASE type = "vehicle_passed" -> VehiclePassedPoints(v)
              [] type = "smooth_flow" -> 50
              [] type = "perfect_timing" -> 25
              [] OTHER -> 0
        text ==
            CASE type = "vehicle_passed" -> VehiclePassedText(v)
              [] type = "smooth_flow" -> "Flujo perfecto! +50 puntos"
              [] type = "perfect_timing" -> "Timing perfecto! +25 puntos"
              [] OTHER -> ""
    IN  [st EXCEPT
            !.game_state.vehicles_passed =
                IF type = "vehicle_passed" THEN @ + 1 ELSE @,
            !.game_state.score = @ + points,
            !.event.response =
                [NoResponse EXCEPT
                    !.points = points,
                    !.message = Message(text, 0),
                    !.severity = "positive"]]

\* a handler whose slow_time halves the current time scale and whose
\* unlisted subtype gives a life
ProcessPowerUpSloppy(st) ==
    LET type == st.event.data.type
    IN  CASE type = "slow_time" ->
                [st EXCEPT !.game_state.time_scale = @ \div 2,
                           !.game_state.power_up_duration = 5]
          [] type = "score_multiplier" ->
                [st EXCEPT !.game_state.score_multiplier = 200,
                           !.game_state.multiplier_duration = 10]
          [] type = "clear_traffic" -> [st EXCEPT !.event.data.clear_vehicles = TRUE]
          [] OTHER -> [st EXCEPT !.game_state.lives = @ + 1]

\* PowerUpHandler.process; time_scale and score_multiplier in percent
ProcessPowerUp(st) ==
    LET type == st.event.data.type
    IN  CASE type = "slow_time" ->
                [st EXCEPT
                    !.game_state.time_scale = 50,
                    !.game_state.power_up_duration = 5,
                    !.event.response =
                        [NoResponse EXCEPT
                            !.message = Message("Tiempo ralentizado!", 0),
                            !.duration = 5,
                            !.severity = "positive"]]
          [] type = "extra_life" ->
                [st EXCEPT
                    !.game_state.lives = @ + 1,
                    !.event.response =
                        [NoResponse EXCEPT
                            !.message = Message("Vida extra!", 0),
                            !.severity = "positive"]]
          [] type = "score_multiplier" ->
                [st EXCEPT
                    !.game_state.score_multiplier = 200,
                    !.game_state.multiplier_duration = 10,
                    !.event.response =
                        [NoResponse EXCEPT
                            !.message = Message("Puntos x2!", 0),
                            !.duration = 10,
                            !.severity = "positive"]]
          [] type = "clear_traffic" ->
                [st EXCEPT
                    !.event.data.clear_vehicles = TRUE,
                    !.event.response =
                        [NoResponse EXCEPT
                            !.message = Message("Trafico despejado!", 0),
                            !.severity = "positive"]]
          [] OTHER -> st

\* a penalty table whose high tier has the penalty of the medium tier
CongestionPenaltyHighAsMedium(level) ==
    CASE level = "low" -> 5
      [] level = "medium" -> 15
      [] level = "high" -> 15
      [] level = "critical" -> 50
      [] OTHER -> 10

\* CongestionHandler.process: penalties.get(congestion_level, 10)
CongestionPenalty(level) ==
    CASE level = "low" -> 5
      [] level = "medium" -> 15
      [] level = "high" -> 30
      [] level = "critical" -> 50
      [] OTHER -> 10

\* CongestionHandler.process: messages.get(congestion_level)
CongestionText(level) ==
    CASE level = "low" -> "Trafico lento -{penalty} puntos"
      [] level = "medium" -> "Congestion moderada -{penalty} puntos"
      [] level = "high" -> "Trafico pesado! -{penalty} puntos"
      [] level = "critical" -> "CONGESTION CRITICA! -{penalty} puntos"
      [] OTHER -> "None -{penalty} puntos"

\* CongestionHandler.process: data.get('level', 'medium')
ProcessCongestion(st) ==
    LET level == IF st.event.data.level = "absent" THEN "medium"
                 ELSE st.event.data.level
        penalty == CongestionPenalty(level)
    IN  [st EXCEPT
            !.game_state.score = Penalize(@, penalty),
            !.event.response =
                [NoResponse EXCEPT
                    !.penalty = penalty,
                    !.message = Message(CongestionText(level), penalty),
                    !.severity = IF level \in {"low", "medium"} THEN "medium" ELSE "high",
                    !.waiting_vehicles = st.event.data.waiting_vehicles]]

\* a log that, once full, turns the newest record away
ProcessLoggingKeepsOldest(st, now) ==
    LET entry == [type |-> st.event.event_type, data |-> st.event.data,
                  response |-> st.event.response, timestamp |-> now]
        log == Append(st.event_log, entry)
    IN  [st EXCEPT
            !.event_log = IF Len(log) > LOG_CAPACITY THEN st.event_log ELSE log,
            !.event.handled = TRUE]

\* LoggingHandler.process: append, drop the oldest beyond the capacity, mark handled
ProcessLogging(st, now) ==
    LET entry == [type |-> st.event.event_type, data |-> st.event.data,
                  response |-> st.event.response, timestamp |-> now]
        log == Append(st.event_log, entry)
    IN  [st EXCEPT
            !.event_log = IF Len(log) > LOG_CAPACITY THEN Tail(log) ELSE log,
            !.event.handled = TRUE]

\* <Handler>.process
Process(h, st, now) ==
    CASE h = "CollisionHandler" -> ProcessCollision(st)
      [] h = "TrafficViolationHandler" -> ProcessViolation(st)
      [] h = "ScoreHandler" -> ProcessScore(st)
      [] h = "PowerUpHandler" -> ProcessPowerUp(st)
      [] h = "CongestionHandler" -> ProcessCongestion(st)
      [] h = "LoggingHandler" -> ProcessLogging(st, now)

\* a dispatch that stops at the first handler that accepted the event
RECURSIVE HandleStopsAfterFirst(_, _, _)
HandleStopsAfterFirst(i, st, now) ==
    LET h == HandlerChain[i]
        accepted == CanHandle(h, st.event)
        st1 == IF accepted THEN Process(h, st, now) ELSE st
    IN  Then([st1 EXCEPT
                !.offered = Append(@, h),
                !.processed = IF accepted THEN Append(@, h) ELSE @],
             LAMBDA st2 :
                IF i < Len(HandlerChain) /\ ~accepted
                THEN HandleStopsAfterFirst(i + 1, st2, now)
                ELSE st2)

\* EventHandler.handle of the i-th handler of the chain: process if accepted,
\* then pass on to the next handler unless the event is marked handled
RECURSIVE Handle(_, _, _)
Handle(i, st, now) ==
    LET h == HandlerChain[i]
        accepted == CanHandle(h, st.event)
        st1 == IF accepted THEN Process(h, st, now) ELSE st
    IN  Then([st1 EXCEPT
                !.offered = Append(@, h),
                !.processed = IF accepted THEN Append(@, h) ELSE @],
             LAMBDA st2 :
                IF i < Len(HandlerChain) /\ ~st2.event.handled
                THEN Handle(i + 1, st2, now)
                ELSE st2)

\* EventSystem.emit_event on [game_state, event_log, notifications]: the
\* event through the chain from first_handler, then the notification
EmitEvent(sys, event_type, data, now) ==
    Then(Handle(1, [game_state |-> sys.game_state,
                    event |-> GameEvent(event_type, data),
                    event_log |-> sys.event_log,
                    offered |-> <<>>, processed |-> <<>>], now),
         LAMBDA st :
            [game_state |-> st.game_state,
             event_log |-> st.event_log,
             notifications |->
                IF st.event.response.message.text # ""
                THEN Append(sys.notifications,
                            [message |-> st.event.response.message,
                             severity |-> IF st.event.response.severity = ""
                                          THEN "info"
                                          ELSE st.event.response.severity,
                             time |-> now,
                             duration |-> NOTIFICATION_DURATION])
                ELSE sys.notifications,
             event |-> st.event,
             dispatch |-> [offered |-> st.offered, processed |-> st.processed]])

-----------------------------------------------------------------------------
(* The orchestrator: src/main.py                                           *)

\* a gate whose stop point takes every vehicle for as long as a car
CheckTrafficLightsCarLength(v, ls) ==
    LET center_x == WIDTH \div 2
        center_y == HEIGHT \div 2
        stop_distance == 120 + 25 + 10
    IN  CASE v.direction = "right" ->
                ~(v.x >= center_x - stop_distance /\ v.x < center_x - 50
                  /\ ~CanPass(ls["h1"]))
          [] v.direction = "left" ->
                ~(v.x <= center_x + stop_distance /\ v.x > center_x + 50
                  /\ ~CanPass(ls["h2"]))
          [] v.direction = "down" ->
                ~(v.y >= center_y - stop_distance /\ v.y < center_y - 50
                  /\ ~CanPass(ls["v1"]))
          [] v.direction = "up" ->
                ~(v.y <= center_y + stop_distance /\ v.y > center_y + 50
                  /\ ~CanPass(ls["v2"]))

\* Game.check_traffic_lights: False for a vehicle between its stop point and
\* the near edge of the intersection while the light of its approach, taken
\* from self.lights by orientation and index, does not let pass
CheckTrafficLights(v, ls) ==
    LET center_x == WIDTH \div 2
        center_y == HEIGHT \div 2
        stop_line_position == 120
        vehicle_half_length == (GetSize(v.species)[1] \div 2) + 10
    IN  CASE v.direction = "right" ->
                LET stop_point == center_x - stop_line_position - vehicle_half_length
                IN  ~(v.x >= stop_point /\ v.x < center_x - 50 /\ ~CanPass(ls["h1"]))
          [] v.direction = "left" ->
                LET stop_point == center_x + stop_line_position + vehicle_half_length
                IN  ~(v.x <= stop_point /\ v.x > center_x + 50 /\ ~CanPass(ls["h2"]))
          [] v.direction = "down" ->
                LET stop_point == center_y - stop_line_position - vehicle_half_length
                IN  ~(v.y >= stop_point /\ v.y < center_y - 50 /\ ~CanPass(ls["v1"]))
          [] v.direction = "up" ->
                LET stop_point == center_y + stop_line_position + vehicle_half_length
                IN  ~(v.y <= stop_point /\ v.y > center_y + 50 /\ ~CanPass(ls["v2"]))

\* Game.check_vehicle_ahead: False when another vehicle of the same direction
\* is ahead by less than safe_distance = 80
CheckVehicleAhead(v, vs) ==
    ~\E i \in 1..Len(vs) :
        LET other == vs[i]
        IN  /\ other.id # v.id
            /\ other.direction = v.direction
            /\ CASE v.direction = "right" -> other.x > v.x /\ other.x - v.x < 80
                 [] v.direction = "left" -> other.x < v.x /\ v.x - other.x < 80
                 [] v.direction = "down" -> other.y > v.y /\ other.y - v.y < 80
                 [] v.direction = "up" -> other.y < v.y /\ v.y - other.y < 80

\* Vehicle.get_rect: [left, top, width, height], the size swapped for
\* vertical travel
GetRect(v) ==
    LET size == GetSize(v.species)
        width == IF v.direction \in {"left", "right"} THEN size[1] ELSE size[2]
        height == IF v.direction \in {"left", "right"} THEN size[2] ELSE size[1]
    IN  [left |-> v.x - (width \div 2), top |-> v.y - (height \div 2),
         width |-> width, height |-> height]

\* pygame.Rect.collidepoint
CollidePoint(r, x, y) ==
    /\ r.left <= x /\ x < r.left + r.width
    /\ r.top <= y /\ y < r.top + r.height

\* pygame.Rect.colliderect
CollideRect(a, b) ==
    /\ a.left < b.left + b.width /\ b.left < a.left + a.width
    /\ a.top < b.top + b.height /\ b.top < a.top + a.height

\* Game.check_collisions: the test on one pair
PairCollides(v1, v2) ==
    LET intersection_zone ==
            [left |-> (WIDTH \div 2) - 100, top |-> (HEIGHT \div 2) - 100,
             width |-> 200, height |-> 200]
    IN  /\ CollidePoint(intersection_zone, v1.x, v1.y)
        /\ CollidePoint(intersection_zone, v2.x, v2.y)
        /\ v1.direction # v2.direction
        /\ CollideRect(GetRect(v1), GetRect(v2))

\* a vehicle as an event payload holds it: the object, known by its identity
Ref(v) == [id |-> v.id, species |-> v.species]

\* list.remove(v) if v in list, for each v of a list of vehicles
RemoveVehicles(vs, removed) ==
    SelectSeq(vs, LAMBDA v : \A k \in 1..Len(removed) : removed[k].id # v.id)

\* EventSystem.emit_event on the part g of the game that holds the event system
GameEmit(g, event_type, data) ==
    Then(EmitEvent([game_state |-> g.game_state, event_log |-> g.event_log,
                    notifications |-> g.notifications],
                   event_type, data, g.ticks),
         LAMBDA r :
            [g EXCEPT !.game_state = r.game_state, !.event_log = r.event_log,
                      !.notifications = r.notifications, !.event = r.event,
                      !.dispatch = r.dispatch])

\* Game.check_collisions: the body of the inner loop; the vehicles listed by
\* the processed event are removed from the list
CollidePair(g, v1, v2) ==
    IF PairCollides(v1, v2)
    THEN Then(GameEmit(g, "collision",
                       [NoData EXCEPT !.vehicle1 = Ref(v1), !.vehicle2 = Ref(v2)]),
              LAMBDA e :
                [e EXCEPT !.vehicles = RemoveVehicles(@, e.event.data.remove_vehicles)])
    ELSE g

\* Game.check_collisions: the inner loop, v1 against the slice taken when
\* the loop began
RECURSIVE CollisionsInner(_, _, _, _)
CollisionsInner(g, v1, slice, j) ==
    IF j > Len(slice) THEN g
    ELSE Then(CollidePair(g, v1, slice[j]),
              LAMBDA g1 : CollisionsInner(g1, v1, slice, j + 1))

\* Game.check_collisions: the outer loop walks the live list by index
RECURSIVE CollisionsOuter(_, _)
CollisionsOuter(g, i) ==
    IF i > Len(g.vehicles) THEN g
    ELSE Then(CollisionsInner(g, g.vehicles[i],
                              SubSeq(g.vehicles, i + 1, Len(g.vehicles)), 1),
              LAMBDA g1 : CollisionsOuter(g1, i + 1))

\* Game.check_collisions
CheckCollisions(g) == CollisionsOuter(g, 1)

\* tiers that begin at their threshold instead of above it
CongestionLevelFromThreshold(stopped_vehicles) ==
    IF stopped_vehicles >= 15 THEN "critical"
    ELSE IF stopped_vehicles >= 10 THEN "high"
    ELSE IF stopped_vehicles >= 5 THEN "medium"
    ELSE IF stopped_vehicles >= 3 THEN "low"
    ELSE "none"

\* Game.check_congestion: the level of a count of stopped vehicles
CongestionLevel(stopped_vehicles) ==
    IF stopped_vehicles > 15 THEN "critical"
    ELSE IF stopped_vehicles > 10 THEN "high"
    ELSE IF stopped_vehicles > 5 THEN "medium"
    ELSE IF stopped_vehicles > 3 THEN "low"
    ELSE "none"

\* Game.check_congestion; roll says whether random.random() < 0.01
CheckCongestion(g, roll) ==
    LET stopped_vehicles ==
            Cardinality({i \in 1..Len(g.vehicles) : g.vehicles[i].stopped})
        level == CongestionLevel(stopped_vehicles)
    IN  IF level # "none" /\ roll
        THEN GameEmit(g, "congestion",
                      [NoData EXCEPT !.level = level,
                                     !.waiting_vehicles = stopped_vehicles])
        ELSE g

\* a cleaning that keeps a notification through the instant its time is up
UpdateNotificationsLate(ns, current_time) ==
    SelectSeq(ns, LAMBDA n : current_time - n.time <= n.duration)

\* EventSystem.update_notifications
UpdateNotifications(ns, current_time) ==
    SelectSeq(ns, LAMBDA n : current_time - n.time < n.duration)

\* the position in vs of the vehicle with the given id, 0 if it is not there
RECURSIVE IndexOf(_, _, _)
IndexOf(vs, id, i) ==
    IF i > Len(vs) THEN 0
    ELSE IF vs[i].id = id THEN i
    ELSE IndexOf(vs, id, i + 1)

\* a loop body that asks the light gate alone
UpdateVehicleLightOnly(g, id, dt, rnd) ==
    LET i == IndexOf(g.vehicles, id, 1)
        vehicle == g.vehicles[i]
        can_move == CheckTrafficLights(vehicle, g.lights)
    IN  Then(VehicleUpdate(vehicle, dt, can_move, rnd),
             LAMBDA updated :
                IF IsOffScreen(updated, WIDTH, HEIGHT)
                THEN GameEmit([g EXCEPT !.vehicles = RemoveVehicles(@, <<updated>>)],
                              "vehicle_passed",
                              [NoData EXCEPT !.vehicle = Ref(updated)])
                ELSE [g EXCEPT !.vehicles[i] = updated])

\* a loop body that drops a vehicle off the screen without a word
UpdateVehicleSilent(g, id, dt, rnd) ==
    LET i == IndexOf(g.vehicles, id, 1)
        vehicle == g.vehicles[i]
        can_move == /\ CheckTrafficLights(vehicle, g.lights)
                    /\ CheckVehicleAhead(vehicle, g.vehicles)
    IN  Then(VehicleUpdate(vehicle, dt, can_move, rnd),
             LAMBDA updated :
                IF IsOffScreen(updated, WIDTH, HEIGHT)
                THEN [g EXCEPT !.vehicles = RemoveVehicles(@, <<updated>>)]
                ELSE [g EXCEPT !.vehicles[i] = updated])

\* Game.update: the body of the loop over the vehicles; the vehicle is gated
\* against the list as it is by then, updated, and removed with a
\* vehicle_passed event once it is off the screen
UpdateVehicle(g, id, dt, rnd) ==
    LET i == IndexOf(g.vehicles, id, 1)
        vehicle == g.vehicles[i]
        can_move == /\ CheckTrafficLights(vehicle, g.lights)
                    /\ CheckVehicleAhead(vehicle, g.vehicles)
    IN  Then(VehicleUpdate(vehicle, dt, can_move, rnd),
             LAMBDA updated :
                IF IsOffScreen(updated, WIDTH, HEIGHT)
                THEN GameEmit([g EXCEPT !.vehicles = RemoveVehicles(@, <<updated>>)],
                              "vehicle_passed",
                              [NoData EXCEPT !.vehicle = Ref(updated)])
                ELSE [g EXCEPT !.vehicles[i] = updated])

\* Game.update: the loop over the copy of the vehicle list
RECURSIVE UpdateVehicles(_, _, _, _, _)
UpdateVehicles(g, copy, draws, dt, k) ==
    IF k > Len(copy) THEN g
    ELSE Then(UpdateVehicle(g, copy[k].id, dt, draws[k]),
              LAMBDA g1 : UpdateVehicles(g1, copy, draws, dt, k + 1))

\* a countdown that takes a life with every frame of a running power-up
CountdownTakesLife(gs, dt) ==
    IF gs.power_up_duration > 0 \/ gs.multiplier_duration > 0
    THEN [gs EXCEPT !.lives = @ - 1]
    ELSE gs

\* Game.update: the countdown of the two power-up durations
Countdown(gs, dt) ==
    LET gs1 == IF gs.power_up_duration > 0
               THEN [gs EXCEPT
                        !.power_up_duration = @ - dt,
                        !.time_scale = IF gs.power_up_duration - dt <= 0
                                       THEN 100 ELSE @]
               ELSE gs
    IN  IF gs1.multiplier_duration > 0
        THEN [gs1 EXCEPT
                !.multiplier_duration = @ - dt,
                !.score_multiplier = IF gs1.multiplier_duration - dt <= 0
                                     THEN 100 ELSE @]
        ELSE gs1

\* Game.update: the spawn timer; spawn_interval in tenths of a second,
\* max(0.8, 2.0 - level * 0.1)
SpawnStep(g, dt, spawn) ==
    LET timer == g.spawn_timer + dt
    IN  IF timer * 10 >= g.spawn_interval
        THEN [g EXCEPT
                !.vehicles = Append(@, SpawnVehicle(g.spawned + 1, spawn.species,
                                                    spawn.direction)),
                !.spawned = @ + 1,
                !.spawn_timer = 0,
                !.spawn_interval = Max(8, 20 - g.game_state.level)]
        ELSE [g EXCEPT !.spawn_timer = timer]

\* Game.update: the level rises while vehicles_passed is a positive multiple of 20
LevelStep(gs) ==
    IF gs.vehicles_passed > 0 /\ gs.vehicles_passed % 20 = 0
    THEN [gs EXCEPT !.level = @ + 1]
    ELSE gs

\* Game.update(raw_dt) of a game that is neither paused nor over; g.ticks is
\* pygame's clock during the frame
GameUpdate(g, raw_dt, spawn, draws, roll) ==
    LET dt == (raw_dt * g.game_state.time_scale) \div 100
    IN  Then(SpawnStep([g EXCEPT !.game_state = Countdown(@, dt),
                                 !.lights = ControllerUpdate(@, dt)], dt, spawn),
        LAMBDA g1 : Then(UpdateVehicles(g1, g1.vehicles, draws, dt, 1),
        LAMBDA g2 : Then(CheckCollisions(g2),
        LAMBDA g3 : Then(CheckCongestion(g3, roll),
        LAMBDA g4 :
            [g4 EXCEPT
                !.notifications = UpdateNotifications(@, g.ticks),
                !.game_state = LevelStep(@),
                !.game_over = IF g4.game_state.lives <= 0 THEN TRUE ELSE @]))))

-----------------------------------------------------------------------------
(* The spatial checks of the library: src/src/collision_utils.py, with the *)
(* constants of src/src/config.py                                          *)

SCREEN_WIDTH == 1200
SCREEN_HEIGHT == 800
INTERSECTION_SIZE == 200
STOP_LINE_DISTANCE == 110
SAFE_DISTANCE_BETWEEN_VEHICLES == 90
DETECTION_MARGIN == 10
LANE_WIDTH == 80

\* CollisionDetector.are_in_intersection
AreInIntersection(v1, v2) ==
    LET center_x == SCREEN_WIDTH \div 2
        center_y == SCREEN_HEIGHT \div 2
        intersection_zone ==
            [left |-> center_x - (INTERSECTION_SIZE \div 2),
             top |-> center_y - (INTERSECTION_SIZE \div 2),
             width |-> INTERSECTION_SIZE, height |-> INTERSECTION_SIZE]
    IN  /\ CollidePoint(intersection_zone, v1.x, v1.y)
        /\ CollidePoint(intersection_zone, v2.x, v2.y)

\* CollisionDetector.are_in_different_directions
AreInDifferentDirections(v1, v2) == v1.direction # v2.direction

\* CollisionDetector.check_collision
CheckCollision(v1, v2) ==
    IF ~AreInIntersection(v1, v2) THEN FALSE
    ELSE IF ~AreInDifferentDirections(v1, v2) THEN FALSE
    ELSE CollideRect(GetRect(v1), GetRect(v2))

\* VehicleSpacingChecker._are_in_same_lane: tolerance = 30
AreInSameLane(v1, v2) ==
    IF v1.direction \in {"left", "right"}
    THEN Max(v1.y - v2.y, v2.y - v1.y) < 30
    ELSE Max(v1.x - v2.x, v2.x - v1.x) < 30

\* None where a distance is expected
NoDistance == [none |-> TRUE, value |-> 0]
Distance(d) == [none |-> FALSE, value |-> d]

\* VehicleSpacingChecker._get_distance_ahead
GetDistanceAhead(vehicle, other) ==
    CASE vehicle.direction = "right" ->
            IF other.x > vehicle.x THEN Distance(other.x - vehicle.x) ELSE NoDistance
      [] vehicle.direction = "left" ->
            IF other.x < vehicle.x THEN Distance(vehicle.x - other.x) ELSE NoDistance
      [] vehicle.direction = "down" ->
            IF other.y > vehicle.y THEN Distance(other.y - vehicle.y) ELSE NoDistance
      [] vehicle.direction = "up" ->
            IF other.y < vehicle.y THEN Distance(vehicle.y - other.y) ELSE NoDistance
      [] OTHER -> NoDistance

\* VehicleSpacingChecker.get_vehicle_ahead: the loop from position i on, with
\* the closest vehicle found so far (its position in the list, 0 for None)
RECURSIVE GetVehicleAheadFrom(_, _, _, _)
GetVehicleAheadFrom(vehicle, all_vehicles, i, closest) ==
    IF i > Len(all_vehicles) THEN closest
    ELSE LET other == all_vehicles[i]
             distance == GetDistanceAhead(vehicle, other)
             min_distance == GetDistanceAhead(vehicle, all_vehicles[closest])
         IN  IF other.id = vehicle.id \/ other.direction # vehicle.direction
             THEN GetVehicleAheadFrom(vehicle, all_vehicles, i + 1, closest)
             ELSE IF ~AreInSameLane(vehicle, other)
             THEN GetVehicleAheadFrom(vehicle, all_vehicles, i + 1, closest)
             ELSE IF /\ ~distance.none
                     /\ 0 < distance.value
                     /\ (closest = 0 \/ distance.value < min_distance.value)
             THEN GetVehicleAheadFrom(vehicle, all_vehicles, i + 1, i)
             ELSE GetVehicleAheadFrom(vehicle, all_vehicles, i + 1, closest)

\* VehicleSpacingChecker.get_vehicle_ahead
GetVehicleAhead(vehicle, all_vehicles) ==
    GetVehicleAheadFrom(vehicle, all_vehicles, 1, 0)

\* VehicleSpacingChecker.can_move_forward
CanMoveForward(vehicle, all_vehicles) ==
    LET ahead == GetVehicleAhead(vehicle, all_vehicles)
    IN  IF ahead = 0 THEN TRUE
        ELSE LET vehicle_ahead == all_vehicles[ahead]
                 distance == GetDistanceAhead(vehicle, vehicle_ahead)
                 safe_distance ==
                    SAFE_DISTANCE_BETWEEN_VEHICLES
                    + ((GetSize(vehicle.species)[1]
                        + GetSize(vehicle_ahead.species)[1]) \div 2)
             IN  IF distance.none THEN TRUE
                 ELSE distance.value >= safe_distance

\* TrafficLightChecker._is_near_stop_line: threshold = 150
IsNearStopLine(vehicle) ==
    LET center_x == SCREEN_WIDTH \div 2
        center_y == SCREEN_HEIGHT \div 2
    IN  IF vehicle.direction \in {"left", "right"}
        THEN Max(vehicle.x - center_x, center_x - vehicle.x) < 150
        ELSE Max(vehicle.y - center_y, center_y - vehicle.y) < 150

\* TrafficLightChecker._change_lane_if_needed
ChangeLaneIfNeeded(vehicle) ==
    LET center_x == SCREEN_WIDTH \div 2
        center_y == SCREEN_HEIGHT \div 2
        lane_offset == LANE_WIDTH \div 2
        shift_y == [vehicle EXCEPT !.y = IF @ < center_y THEN @ + lane_offset
                                         ELSE @ - lane_offset]
        shift_x == [vehicle EXCEPT !.x = IF @ < center_x THEN @ + lane_offset
                                         ELSE @ - lane_offset]
    IN  CASE vehicle.direction = "right" ->
                IF center_x - 200 < vehicle.x /\ vehicle.x < center_x - 100
                THEN shift_y ELSE vehicle
          [] vehicle.direction = "left" ->
                IF center_x + 100 < vehicle.x /\ vehicle.x < center_x + 200
                THEN shift_y ELSE vehicle
          [] vehicle.direction = "down" ->
                IF center_y - 200 < vehicle.y /\ vehicle.y < center_y - 100
                THEN shift_x ELSE vehicle
          [] vehicle.direction = "up" ->
                IF center_y + 100 < vehicle.y /\ vehicle.y < center_y + 200
                THEN shift_x ELSE vehicle
          [] OTHER -> vehicle

\* TrafficLightChecker.can_pass_traffic_light: the value returned and the
\* vehicle as the call leaves it
CanPassTrafficLight(vehicle, ls) ==
    LET center_x == SCREEN_WIDTH \div 2
        center_y == SCREEN_HEIGHT \div 2
        vehicle_half_length == GetSize(vehicle.species)[1] \div 2
        before == center_x - STOP_LINE_DISTANCE - vehicle_half_length - DETECTION_MARGIN
        after == center_x + STOP_LINE_DISTANCE + vehicle_half_length + DETECTION_MARGIN
        above == center_y - STOP_LINE_DISTANCE - vehicle_half_length - DETECTION_MARGIN
        below == center_y + STOP_LINE_DISTANCE + vehicle_half_length + DETECTION_MARGIN
    IN  IF HasPriority(vehicle) /\ ~IsNearStopLine(vehicle)
        THEN [result |-> TRUE, vehicle |-> ChangeLaneIfNeeded(vehicle)]
        ELSE [vehicle |-> vehicle,
              result |->
                CASE vehicle.direction = "right" ->
                        IF vehicle.x >= before /\ vehicle.x < center_x - 50
                        THEN CanPass(ls["h1"]) ELSE TRUE
                  [] vehicle.direction = "left" ->
                        IF vehicle.x <= after /\ vehicle.x > center_x + 50
                        THEN CanPass(ls["h2"]) ELSE TRUE
                  [] vehicle.direction = "down" ->
                        IF vehicle.y >= above /\ vehicle.y < center_y - 50
                        THEN CanPass(ls["v1"]) ELSE TRUE
                  [] vehicle.direction = "up" ->
                        IF vehicle.y <= below /\ vehicle.y > center_y + 50
                        THEN CanPass(ls["v2"]) ELSE TRUE
                  [] OTHER -> TRUE]

\* the value returned by a call of a spatial check and the positions in the
\* list of the vehicles it was asked about; none before any call
NoVerdict == [check |-> "none", subject |-> <<>>, result |-> FALSE]
Verdict(check, subject, result) ==
    [check |-> check, subject |-> subject, result |-> result]

-----------------------------------------------------------------------------
(* The operations of the lights as actions                                 *)

NoLight == "none"

\* the operations of the lights touch nothing else
LightsOnly == UNCHANGED <<eventVars, vehicles, gameVars, verdict>>

Op(name, light) == [op |-> name, light |-> light]

\* TrafficLightController.update(dt)
UpdateController ==
    \E dt \in LightDts :
        /\ lights' = ControllerUpdate(lights, dt)
        /\ last' = Op("controller_update", NoLight)
        /\ LightsOnly

\* TrafficLight.update(dt) of one light
UpdateLight ==
    \E l \in TrafficLights, dt \in LightDts :
        /\ lights' = [lights EXCEPT ![l] = TrafficLightUpdate(lights[l], dt)]
        /\ last' = Op("update", l)
        /\ LightsOnly

ToggleManual ==
    \E l \in TrafficLights :
        /\ lights' = [lights EXCEPT ![l] = ToggleManualOverride(lights[l])]
        /\ last' = Op("toggle_manual_override", l)
        /\ LightsOnly

\* force_green / force_red / force_yellow return at once unless manual_override
ForceGreen ==
    \E l \in TrafficLights :
        /\ lights[l].manual_override
        /\ lights' = [lights EXCEPT ![l] = ForceState(lights[l], "GREEN")]
        /\ last' = Op("force_green", l)
        /\ LightsOnly

ForceRed ==
    \E l \in TrafficLights :
        /\ lights[l].manual_override
        /\ lights' = [lights EXCEPT ![l] = ForceState(lights[l], "RED")]
        /\ last' = Op("force_red", l)
        /\ LightsOnly

ForceYellow ==
    \E l \in TrafficLights :
        /\ lights[l].manual_override
        /\ lights' = [lights EXCEPT ![l] = ForceState(lights[l], "YELLOW")]
        /\ last' = Op("force_yellow", l)
        /\ LightsOnly

\* cycle_state returns at once unless manual_override
Cycle ==
    \E l \in TrafficLights :
        /\ lights[l].manual_override
        /\ lights' = [lights EXCEPT ![l] = CycleState(lights[l])]
        /\ last' = Op("cycle_state", l)
        /\ LightsOnly

\* no event emitted yet
NoEvent == GameEvent("none", NoData)
NoDispatch == [offered |-> <<>>, processed |-> <<>>]

\* EventSystem.__init__ over the game_state of Game.__init__
InitEventSystem ==
    /\ game_state = NewGameState
    /\ event = NoEvent
    /\ dispatch = NoDispatch
    /\ event_log = <<>>
    /\ notifications = <<>>
    /\ ticks = 0

\* the controller after add_traffic_light of four new lights
InitController ==
    /\ lights = [l \in TrafficLights |-> NewTrafficLight]
    /\ last = Op("init", NoLight)

\* Game.__init__: no vehicle, the spawn timer, not paused, not over
InitGameFields ==
    /\ vehicles = <<>>
    /\ spawn_timer = 0
    /\ spawn_interval = 20
    /\ spawned = 0
    /\ paused = FALSE
    /\ game_over = FALSE
    /\ verdict = NoVerdict

InitLights ==
    /\ InitController
    /\ InitEventSystem
    /\ InitGameFields

NextLights ==
    \/ UpdateController
    \/ UpdateLight
    \/ ToggleManual
    \/ ForceGreen
    \/ ForceRed
    \/ ForceYellow
    \/ Cycle

SpecLights == InitLights /\ [][NextLights]_vars

-----------------------------------------------------------------------------
(* The commands of a player on a light in either mode                      *)

CommandNames == {"force_green", "force_red", "force_yellow", "cycle_state"}

\* TrafficLight.force_green / force_red / force_yellow / cycle_state
Command(light, name) ==
    CASE name = "force_green" -> ForceState(light, "GREEN")
      [] name = "force_red" -> ForceState(light, "RED")
      [] name = "force_yellow" -> ForceState(light, "YELLOW")
      [] name = "cycle_state" -> CycleState(light)

\* a command called on a light, whatever its mode
CallCommand ==
    \E l \in TrafficLights, name \in CommandNames :
        /\ lights' = [lights EXCEPT ![l] = Command(lights[l], name)]
        /\ last' = Op(name, l)
        /\ LightsOnly

\* the lights the commands are followed on: one of each orientation
CommandedLights == {"h1", "v1"}

\* commands, changes of mode and updates of the lights that are followed
Followed == last'.light \in CommandedLights
NextCommands ==
    \/ CallCommand /\ Followed
    \/ ToggleManual /\ Followed
    \/ UpdateLight /\ Followed

SpecCommands == InitLights /\ [][NextCommands]_vars

-----------------------------------------------------------------------------
(* The lights left to their timers: the controller updated frame after     *)
(* frame, no command given                                                 *)

\* the seconds of a frame of the controller
ControllerDts == 1..(2 * MaxDt)

\* TrafficLightController.update(dt) of a frame
UpdateEveryFrame ==
    \E dt \in ControllerDts :
        /\ lights' = ControllerUpdate(lights, dt)
        /\ last' = Op("controller_update", NoLight)
        /\ LightsOnly

NextCycle == UpdateEveryFrame

\* Game.run calls update in every pass of its loop: the frames never end
SpecCycle == InitLights /\ [][NextCycle]_vars /\ WF_vars(UpdateEveryFrame)

-----------------------------------------------------------------------------
(* The event system as actions: EventSystem.emit_event(event_type, data)   *)

\* the vehicles given as the participants of a collision
FirstVehicles ==
    {NoVehicle, [id |-> 1, species |-> "car"], [id |-> 1, species |-> "emergency"]}
SecondVehicles ==
    {NoVehicle, [id |-> 2, species |-> "truck"], [id |-> 2, species |-> "emergency"]}

\* the vehicles given with vehicle_passed
PassedVehicles == {NoVehicle} \cup {[id |-> 1, species |-> sp] : sp \in Species}

ViolationTypes ==
    {"red_light", "speeding", "wrong_lane", "emergency_obstruction", "parking"}
PowerUpTypes ==
    {"slow_time", "extra_life", "score_multiplier", "clear_traffic", "shield"}
CongestionLevels == {"low", "medium", "high", "critical", "gridlock", "absent"}

\* the event system touches neither the lights nor the clock
EventsOnly == UNCHANGED <<lights, ticks, vehicles, gameVars, verdict>>

\* the run ends after MaxEmits events
MayEmit == Len(event_log) < MaxEmits

Emit(event_type, data) ==
    \E r \in {EmitEvent([game_state |-> game_state, event_log |-> event_log,
                         notifications |-> notifications], event_type, data, ticks)} :
        /\ game_state' = r.game_state
        /\ event_log' = r.event_log
        /\ notifications' = r.notifications
        /\ event' = r.event
        /\ dispatch' = r.dispatch
        /\ last' = Op("emit_event", NoLight)
        /\ EventsOnly

EmitCollision ==
    \E v1 \in FirstVehicles, v2 \in SecondVehicles :
        /\ MayEmit
        /\ Emit("collision", [NoData EXCEPT !.vehicle1 = v1, !.vehicle2 = v2])

EmitTrafficViolation ==
    \E t \in ViolationTypes :
        /\ MayEmit
        /\ Emit("traffic_violation", [NoData EXCEPT !.type = t])

EmitViolation ==
    /\ MayEmit
    /\ Emit("violation", [NoData EXCEPT !.type = "red_light"])

EmitVehiclePassed ==
    \E v \in PassedVehicles :
        /\ MayEmit
        /\ Emit("vehicle_passed", [NoData EXCEPT !.vehicle = v])

EmitSmoothFlow ==
    /\ MayEmit
    /\ Emit("smooth_flow", NoData)

EmitPerfectTiming ==
    /\ MayEmit
    /\ Emit("perfect_timing", NoData)

EmitPowerUp ==
    \E t \in PowerUpTypes :
        /\ MayEmit
        /\ Emit("power_up", [NoData EXCEPT !.type = t])

EmitCongestion ==
    \E lv \in CongestionLevels :
        /\ MayEmit
        /\ Emit("congestion", [NoData EXCEPT !.level = lv, !.waiting_vehicles = 12])

EmitUnknown ==
    /\ MayEmit
    /\ Emit("unknown", NoData)

\* the scores and lives of the game_state the event system is built over
InitScores == {0, 20, 100, 400}
InitLives == {5, 1}

\* EventSystem(game_state) over a game_state in the middle of a game
InitEvents ==
    /\ InitController
    /\ \E sc \in InitScores, lv \in InitLives :
          game_state = [NewGameState EXCEPT !.score = sc, !.lives = lv]
    /\ event = NoEvent
    /\ dispatch = NoDispatch
    /\ event_log = <<>>
    /\ notifications = <<>>
    /\ ticks = 0
    /\ InitGameFields

NextEvents ==
    \/ EmitCollision
    \/ EmitTrafficViolation
    \/ EmitViolation
    \/ EmitVehiclePassed
    \/ EmitSmoothFlow
    \/ EmitPerfectTiming
    \/ EmitPowerUp
    \/ EmitCongestion
    \/ EmitUnknown

SpecEvents == InitEvents /\ [][NextEvents]_vars

-----------------------------------------------------------------------------
(* The event system late in a session: a log that is nearly full, the      *)
(* notifications as the clock runs                                         *)

\* the record of the i-th event of the session so far: an event of a kind
\* that no scoring handler takes, numbered by its payload, logged at clock 0
EarlierRecord(i) ==
    [type |-> "unknown", data |-> [NoData EXCEPT !.waiting_vehicles = i],
     response |-> NoResponse, timestamp |-> 0]
IsEarlier(entry) == entry.type = "unknown" /\ entry.data.waiting_vehicles > 0

\* the numbers of events emitted before: none, one short of the capacity of
\* the log, the capacity
EarlierCounts == {0, LOG_CAPACITY - 1, LOG_CAPACITY}

\* the events emitted from here on: with and without a response message
LateEvents ==
    {GameEvent("collision", [NoData EXCEPT !.vehicle1 = [id |-> 1, species |-> "car"],
                                           !.vehicle2 = [id |-> 2, species |-> "emergency"]]),
     GameEvent("collision", [NoData EXCEPT !.vehicle1 = [id |-> 1, species |-> "car"]]),
     GameEvent("vehicle_passed", [NoData EXCEPT !.vehicle = [id |-> 1, species |-> "bus"]]),
     GameEvent("power_up", [NoData EXCEPT !.type = "slow_time"]),
     GameEvent("power_up", [NoData EXCEPT !.type = "shield"]),
     GameEvent("unknown", NoData)}

\* EventSystem.emit_event, MaxEmits times at most from here on
EmitLate ==
    \E e \in LateEvents :
        /\ Cardinality({i \in 1..Len(event_log) : ~IsEarlier(event_log[i])}) < MaxEmits
        /\ Emit(e.event_type, e.data)

\* EventSystem.update_notifications, one second later on the clock of pygame
UpdateNotificationsCall ==
    /\ ticks + 1000 <= 1000 * MaxSeconds
    /\ ticks' = ticks + 1000
    /\ notifications' = UpdateNotifications(notifications, ticks + 1000)
    /\ last' = Op("update_notifications", NoLight)
    /\ UNCHANGED <<lights, game_state, event, dispatch, event_log, vehicles,
                   gameVars, verdict>>

InitLog ==
    /\ InitController
    /\ game_state = NewGameState
    /\ event = NoEvent
    /\ dispatch = NoDispatch
    /\ \E n \in EarlierCounts : event_log = [i \in 1..n |-> EarlierRecord(i)]
    /\ notifications = <<>>
    /\ ticks = 0
    /\ InitGameFields

NextLog ==
    \/ EmitLate
    \/ UpdateNotificationsCall

SpecLog == InitLog /\ [][NextLog]_vars

-----------------------------------------------------------------------------
(* One vehicle as actions: Vehicle.update(dt, can_move)                    *)

Abs(n) == IF n < 0 THEN -n ELSE n

\* how far the jitter has moved a vehicle off the line it was spawned on
Drift(v) ==
    IF v.direction \in {"left", "right"}
    THEN v.y - SpawnVehicle(v.id, v.species, v.direction).y
    ELSE v.x - SpawnVehicle(v.id, v.species, v.direction).x

\* the outcomes of the random draws of one update of v
Draws(v) ==
    CASE v.species = "fast_car" ->
            {[NoDraws EXCEPT !.jitter = j] :
                j \in {k \in -2..2 : Abs(Drift(v) + k) <= MaxDrift}}
      [] v.species = "bus" ->
            {[NoDraws EXCEPT !.bus_stops = a, !.bus_resumes = b] :
                a \in BOOLEAN, b \in BOOLEAN}
      [] OTHER -> {NoDraws}

\* a vehicle on its own touches nothing else
VehicleOnly == UNCHANGED <<lights, eventVars, gameVars, verdict>>

\* update(dt, True) of a vehicle still on the screen
VehicleMoves ==
    \E dt \in 0..MaxVehicleDt, rnd \in Draws(vehicles[1]) :
        /\ ~IsOffScreen(vehicles[1], WIDTH, HEIGHT)
        /\ vehicles' = <<VehicleUpdate(vehicles[1], dt, TRUE, rnd)>>
        /\ last' = Op("update_can_move", NoLight)
        /\ VehicleOnly

\* update(dt, False) of a vehicle still on the screen
VehicleHeld ==
    \E dt \in 0..MaxVehicleDt, rnd \in Draws(vehicles[1]) :
        /\ ~IsOffScreen(vehicles[1], WIDTH, HEIGHT)
        /\ vehicles[1].waiting_time + dt <= MaxWaitingTime
        /\ vehicles' = <<VehicleUpdate(vehicles[1], dt, FALSE, rnd)>>
        /\ last' = Op("update_cannot_move", NoLight)
        /\ VehicleOnly

\* a vehicle of any species spawned for any direction
InitVehicle ==
    /\ InitController
    /\ InitEventSystem
    /\ \E sp \in Species, d \in Directions : vehicles = <<SpawnVehicle(1, sp, d)>>
    /\ spawn_timer = 0
    /\ spawn_interval = 20
    /\ spawned = 1
    /\ paused = FALSE
    /\ game_over = FALSE
    /\ verdict = NoVerdict

NextVehicle ==
    \/ VehicleMoves
    \/ VehicleHeld

SpecVehicle == InitVehicle /\ [][NextVehicle]_vars

-----------------------------------------------------------------------------
(* The game as actions: Game.run, one frame or one player input per step   *)

\* clock.tick(FPS) / 1000.0: an even number of seconds, which time_scale 0.5
\* scales to whole seconds
FrameDts == {2 * k : k \in 1..MaxFrameDt}

\* spawn_vehicle: random.choice(directions) and create_random_vehicle, of which
\* the plain and the priority species are followed in a game
SpawnSpecies == {"car", "emergency"}
SpawnChoices == [direction : Directions, species : SpawnSpecies]

\* the outcomes of the random draws of the updates of the vehicles of vs
DrawSeqs(vs) ==
    {f \in [1..Len(vs) -> UNION {Draws(vs[i]) : i \in 1..Len(vs)}] :
        \A i \in 1..Len(vs) : f[i] \in Draws(vs[i])}

\* the game as Game.update sees it, the clock at now
CurrentGame(now) ==
    [game_state |-> game_state, event |-> event, dispatch |-> dispatch,
     event_log |-> event_log, notifications |-> notifications, ticks |-> now,
     lights |-> lights, vehicles |-> vehicles, spawn_timer |-> spawn_timer,
     spawn_interval |-> spawn_interval, spawned |-> spawned,
     game_over |-> game_over]

\* the spawn drawn by a frame: none unless the spawn timer runs out in it
NoSpawn == [direction |-> "none", species |-> "none"]
SpawnDraws(g, dt) ==
    IF (g.spawn_timer + dt) * 10 >= g.spawn_interval THEN SpawnChoices ELSE {NoSpawn}

\* the outcomes of random.random() < 0.01 in check_congestion, drawn only
\* when the vehicles that are stopped make a congestion
RollDraws(g) ==
    IF CongestionLevel(Cardinality({i \in 1..Len(g.vehicles) : g.vehicles[i].stopped}))
            # "none"
    THEN BOOLEAN ELSE {FALSE}

\* a test that looks at the pause alone
HaltedByPauseOnly(is_paused, is_over) == is_paused

\* Game.update: `if self.paused or self.game_over: return`
Halted(is_paused, is_over) == is_paused \/ is_over

\* Game.update(dt) of a frame of a game that is neither paused nor over, in
\* a run followed until the clock reaches limit
FrameUntil(limit) ==
    \E raw_dt \in FrameDts :
        LET now == ticks + 1000 * raw_dt
            g == CurrentGame(now)
            dt == (raw_dt * game_state.time_scale) \div 100
        IN  /\ ~Halted(paused, game_over)
            /\ now <= limit
            /\ \E spawn \in SpawnDraws(g, dt) :
                LET spawned_list == SpawnStep(g, dt, spawn).vehicles
                IN  /\ Len(spawned_list) <= MaxVehicles
                    /\ \E draws \in DrawSeqs(spawned_list) :
                        \E roll \in RollDraws(GameUpdate(g, raw_dt, spawn, draws, FALSE)) :
                            \E r \in {GameUpdate(g, raw_dt, spawn, draws, roll)} :
                                /\ game_state' = r.game_state
                                /\ event' = r.event
                                /\ dispatch' = r.dispatch
                                /\ event_log' = r.event_log
                                /\ notifications' = r.notifications
                                /\ ticks' = now
                                /\ lights' = r.lights
                                /\ vehicles' = r.vehicles
                                /\ spawn_timer' = r.spawn_timer
                                /\ spawn_interval' = r.spawn_interval
                                /\ spawned' = r.spawned
                                /\ game_over' = r.game_over
                                /\ paused' = paused
                                /\ verdict' = verdict
                                /\ last' = Op("update", NoLight)

\* a frame of a run of MaxSeconds seconds
Frame == FrameUntil(1000 * MaxSeconds)

\* handle_events: a left click on a light cycles its state
ClickLight ==
    \E l \in TrafficLights :
        /\ lights' = [lights EXCEPT ![l] = CycleState(lights[l])]
        /\ last' = Op("click", NoLight)
        /\ LightsOnly

\* handle_events: K_SPACE
TogglePause ==
    /\ paused' = ~paused
    /\ last' = Op("pause", NoLight)
    /\ UNCHANGED <<lights, eventVars, vehicles, spawn_timer, spawn_interval,
                   spawned, game_over, verdict>>

\* a set-up that leaves the four lights to their timers
SetupIntersectionAutomatic ==
    [l \in TrafficLights |-> ForceState(NewTrafficLight, "RED")]

\* Game.setup_intersection: four new lights, force_red on each, then each
\* put in manual mode
SetupIntersection ==
    [l \in TrafficLights |->
        [ForceState(NewTrafficLight, "RED") EXCEPT !.manual_override = TRUE]]

\* Game.setup_intersection: four lights forced red, held in manual mode
InitIntersection ==
    /\ lights = SetupIntersection
    /\ last = Op("init", NoLight)

\* Game.__init__
Init ==
    /\ InitIntersection
    /\ InitEventSystem
    /\ InitGameFields

\* Game.run: a frame, or a left click on a light, or the space bar
NextGame ==
    \/ Frame
    \/ ClickLight
    \/ TogglePause

SpecGame == Init /\ [][NextGame]_vars

\* events of every kind, as a caller other than the frame may emit them
OutsideEvents ==
    {GameEvent("collision", [NoData EXCEPT !.vehicle1 = [id |-> 1, species |-> "car"],
                                           !.vehicle2 = [id |-> 2, species |-> "truck"]]),
     GameEvent("collision", [NoData EXCEPT !.vehicle1 = [id |-> 1, species |-> "car"],
                                           !.vehicle2 = [id |-> 2, species |-> "emergency"]]),
     GameEvent("collision", [NoData EXCEPT !.vehicle1 = [id |-> 1, species |-> "car"]]),
     GameEvent("traffic_violation", [NoData EXCEPT !.type = "emergency_obstruction"]),
     GameEvent("violation", [NoData EXCEPT !.type = "red_light"]),
     GameEvent("vehicle_passed", [NoData EXCEPT !.vehicle = [id |-> 1, species |-> "bus"]]),
     GameEvent("smooth_flow", NoData),
     GameEvent("perfect_timing", NoData),
     GameEvent("power_up", [NoData EXCEPT !.type = "slow_time"]),
     GameEvent("power_up", [NoData EXCEPT !.type = "extra_life"]),
     GameEvent("power_up", [NoData EXCEPT !.type = "score_multiplier"]),
     GameEvent("congestion", [NoData EXCEPT !.level = "critical", !.waiting_vehicles = 16]),
     GameEvent("unknown", NoData)}

\* EventSystem.emit_event called between two frames
EmitBetweenFrames ==
    \E e \in OutsideEvents :
        /\ MayEmit
        /\ Emit(e.event_type, e.data)

\* the frames of a game whose event system is also given events from outside
Next ==
    \/ Frame
    \/ EmitBetweenFrames

Spec == Init /\ [][Next]_vars

-----------------------------------------------------------------------------
(* A bus on its approach to a light that stays red, in frames of half a    *)
(* second: the body of the loop of Game.update over the vehicles           *)

\* the half seconds a bus is followed for while it is held
MaxHeldFrames == 12

\* check_traffic_lights and check_vehicle_ahead for the only vehicle
MayMove == /\ CheckTrafficLights(vehicles[1], lights)
           /\ CheckVehicleAhead(vehicles[1], vehicles)

\* vehicle.update(0.5, can_move) of the bus while it stays on the screen
ApproachStep(can_move) ==
    \E rnd \in Draws(vehicles[1]) :
        \E updated \in {VehicleUpdateHalfSecond(vehicles[1], can_move, rnd)} :
            /\ ~IsOffScreen(updated, WIDTH, HEIGHT)
            /\ updated.waiting_time <= MaxHeldFrames
            /\ vehicles' = <<updated>>
            /\ VehicleOnly

\* a frame in which both gates let the bus move
ApproachFree ==
    /\ MayMove
    /\ ApproachStep(TRUE)
    /\ last' = Op("update_can_move", NoLight)

\* a frame in which a gate holds the bus
ApproachHeld ==
    /\ ~MayMove
    /\ ApproachStep(FALSE)
    /\ last' = Op("update_cannot_move", NoLight)

\* a bus spawned for any direction in a game as Game.__init__ leaves it
InitApproach ==
    /\ InitIntersection
    /\ InitEventSystem
    /\ \E d \in Directions : vehicles = <<SpawnVehicle(1, "bus", d)>>
    /\ spawn_timer = 0
    /\ spawn_interval = 20
    /\ spawned = 1
    /\ paused = FALSE
    /\ game_over = FALSE
    /\ verdict = NoVerdict

NextApproach ==
    \/ ApproachFree
    \/ ApproachHeld

SpecApproach == InitApproach /\ [][NextApproach]_vars

-----------------------------------------------------------------------------
(* check_congestion over a list of waiting vehicles                        *)

\* a list of moving cars followed by n cars that Vehicle.update has stopped
WaitingList(n, moving) ==
    [i \in 1..(moving + n) |->
        [SpawnVehicle(i, "car", "right") EXCEPT !.stopped = (i > moving)]]

\* Game.check_congestion of a frame, with either outcome of the random draw
CongestionCheck ==
    \E roll \in BOOLEAN :
        \E r \in {CheckCongestion(CurrentGame(ticks), roll)} :
            /\ MayEmit
            /\ game_state' = r.game_state
            /\ event' = r.event
            /\ dispatch' = r.dispatch
            /\ event_log' = r.event_log
            /\ notifications' = r.notifications
            /\ last' = Op("check_congestion", NoLight)
            /\ UNCHANGED <<lights, ticks, vehicles, gameVars, verdict>>

InitCongestion ==
    /\ InitController
    /\ \E sc \in InitScores, lv \in InitLives :
          game_state = [NewGameState EXCEPT !.score = sc, !.lives = lv]
    /\ event = NoEvent
    /\ dispatch = NoDispatch
    /\ event_log = <<>>
    /\ notifications = <<>>
    /\ ticks = 0
    /\ \E n \in 0..MaxStopped, moving \in 0..MaxMoving :
          /\ vehicles = WaitingList(n, moving)
          /\ spawned = n + moving
    /\ spawn_timer = 0
    /\ spawn_interval = 20
    /\ paused = FALSE
    /\ game_over = FALSE
    /\ verdict = NoVerdict

NextCongestion == CongestionCheck

SpecCongestion == InitCongestion /\ [][NextCongestion]_vars

-----------------------------------------------------------------------------
(* The spatial checks as actions, over scenes of one to three vehicles     *)

\* the stop point Game.check_traffic_lights computes for v, on its travel axis
GameStopPoint(v) ==
    LET vehicle_half_length == (GetSize(v.species)[1] \div 2) + 10
    IN  CASE v.direction = "right" -> (WIDTH \div 2) - 120 - vehicle_half_length
          [] v.direction = "left" -> (WIDTH \div 2) + 120 + vehicle_half_length
          [] v.direction = "down" -> (HEIGHT \div 2) - 120 - vehicle_half_length
          [] v.direction = "up" -> (HEIGHT \div 2) + 120 + vehicle_half_length

\* the stop point TrafficLightChecker.can_pass_traffic_light computes for v
LibraryStopPoint(v) ==
    LET offset == STOP_LINE_DISTANCE + (GetSize(v.species)[1] \div 2)
                  + DETECTION_MARGIN
    IN  CASE v.direction = "right" -> (SCREEN_WIDTH \div 2) - offset
          [] v.direction = "left" -> (SCREEN_WIDTH \div 2) + offset
          [] v.direction = "down" -> (SCREEN_HEIGHT \div 2) - offset
          [] v.direction = "up" -> (SCREEN_HEIGHT \div 2) + offset

\* the position of v on its travel axis, and v put at a position on it
Along(v) == IF v.direction \in {"left", "right"} THEN v.x ELSE v.y
PutAlong(v, c) ==
    IF v.direction \in {"left", "right"} THEN [v EXCEPT !.x = c]
    ELSE [v EXCEPT !.y = c]

\* v moved n units further in its direction of travel, and n units sideways
Advanced(v, n) ==
    IF v.direction \in {"right", "down"} THEN PutAlong(v, Along(v) + n)
    ELSE PutAlong(v, Along(v) - n)
Sideways(v, n) ==
    IF v.direction \in {"left", "right"} THEN [v EXCEPT !.y = @ + n]
    ELSE [v EXCEPT !.x = @ + n]

\* a vehicle on the lane of its direction: of the 1000 x 600 screen of the
\* game, or of the 1200 x 800 screen of config.py
Geometries == {"game", "library"}
OnLane(id, species, direction, geometry) ==
    LET v == SpawnVehicle(id, species, direction)
    IN  IF geometry = "game" THEN v
        ELSE [v EXCEPT !.x = @ + ((SCREEN_WIDTH - WIDTH) \div 2),
                       !.y = @ + ((SCREEN_HEIGHT - HEIGHT) \div 2)]

\* the four lights in one state, in the manual mode setup_intersection gives
SceneLights(s) ==
    [l \in TrafficLights |->
        [ChangeState(NewTrafficLight, s) EXCEPT !.manual_override = TRUE]]

\* one vehicle at, before or past its stop point
GateScenesOf(g) ==
    {LET v == OnLane(1, sp, d, g)
         stop_point == IF g = "game" THEN GameStopPoint(v) ELSE LibraryStopPoint(v)
     IN  <<Advanced(PutAlong(v, stop_point), off)>> :
        sp \in Species, d \in Directions, off \in (-MaxOffset)..MaxOffset}

GateScenes == UNION {GateScenesOf(g) : g \in Geometries}

\* the gaps tried between a vehicle and the one ahead: it is behind, beside,
\* around the 80 of the game, around the safe distance of the library
Gaps(v1, v2) ==
    LET safe_distance ==
            SAFE_DISTANCE_BETWEEN_VEHICLES
            + ((GetSize(v1.species)[1] + GetSize(v2.species)[1]) \div 2)
    IN  {-1, 0, 79, 80, safe_distance - 1, safe_distance}

\* the lateral offsets tried: the same line, around the tolerance of 30
LateralOffsets == {0, 29, 30}

\* a vehicle, a second one ahead of or behind it, on its lane or beside it,
\* with its direction or the opposite one, and at times a third far ahead
QueueSpecies == {"car", "bus"}
Opposite(d) ==
    CASE d = "right" -> "left" [] d = "left" -> "right"
      [] d = "down" -> "up" [] d = "up" -> "down"
SpacingScenes ==
    UNION {
        LET v1 == Advanced(OnLane(1, sp1, d, "game"), 150)
            v2 == [OnLane(2, sp2, d, "game") EXCEPT
                        !.direction = IF same THEN d ELSE Opposite(d)]
            v3 == OnLane(3, "car", d, "game")
            at(v, gap) == [v EXCEPT !.x = Advanced(v1, gap).x,
                                    !.y = Advanced(v1, gap).y]
        IN  {<<v1, Sideways(at(v2, gap), lat)>> :
                gap \in Gaps(v1, v2), lat \in LateralOffsets}
            \cup
            {<<v1, Sideways(at(v2, gap), lat), at(v3, gap + 300)>> :
                gap \in {79, 80}, lat \in {0, 30}}
        : sp1 \in QueueSpecies, sp2 \in QueueSpecies, d \in Directions,
          same \in BOOLEAN}

\* the positions tried for a pair: inside the box of the game only, inside
\* both boxes, inside the box of the library only, outside both, on corners
CrossingPoints ==
    {<<450, 250>>, <<550, 350>>, <<650, 450>>, <<250, 100>>,
     <<400, 200>>, <<399, 200>>, <<599, 399>>, <<600, 400>>}

\* a car heading right and a second vehicle on it or beside it
CrossingScenes ==
    {<<[SpawnVehicle(1, "car", "right") EXCEPT !.x = p[1], !.y = p[2]],
       [SpawnVehicle(2, sp, d) EXCEPT !.x = p[1] + dx, !.y = p[2]]>> :
        p \in CrossingPoints, dx \in {0, 39, 40},
        sp \in {"car", "emergency"}, d \in {"down", "left", "right"}}

Scenes == GateScenes \cup SpacingScenes \cup CrossingScenes

\* Game.check_traffic_lights(vehicle)
CheckTrafficLightsCall ==
    \E i \in 1..Len(vehicles) :
        /\ verdict' = Verdict("check_traffic_lights", <<i>>,
                              CheckTrafficLights(vehicles[i], lights))
        /\ last' = Op("check_traffic_lights", NoLight)
        /\ UNCHANGED <<lights, eventVars, vehicles, gameVars>>

\* TrafficLightChecker.can_pass_traffic_light(vehicle, lights)
CanPassTrafficLightCall ==
    \E i \in 1..Len(vehicles) :
        \E r \in {CanPassTrafficLight(vehicles[i], lights)} :
            /\ verdict' = Verdict("can_pass_traffic_light", <<i>>, r.result)
            /\ vehicles' = [vehicles EXCEPT ![i] = r.vehicle]
            /\ last' = Op("can_pass_traffic_light", NoLight)
            /\ UNCHANGED <<lights, eventVars, gameVars>>

\* Game.check_vehicle_ahead(vehicle)
CheckVehicleAheadCall ==
    \E i \in 1..Len(vehicles) :
        /\ verdict' = Verdict("check_vehicle_ahead", <<i>>,
                              CheckVehicleAhead(vehicles[i], vehicles))
        /\ last' = Op("check_vehicle_ahead", NoLight)
        /\ UNCHANGED <<lights, eventVars, vehicles, gameVars>>

\* VehicleSpacingChecker.can_move_forward(vehicle, all_vehicles)
CanMoveForwardCall ==
    \E i \in 1..Len(vehicles) :
        /\ verdict' = Verdict("can_move_forward", <<i>>,
                              CanMoveForward(vehicles[i], vehicles))
        /\ last' = Op("can_move_forward", NoLight)
        /\ UNCHANGED <<lights, eventVars, vehicles, gameVars>>

\* Game.check_collisions()
CheckCollisionsCall ==
    \E r \in {CheckCollisions(CurrentGame(ticks))} :
        /\ Len(vehicles) >= 2
        /\ game_state' = r.game_state
        /\ event' = r.event
        /\ dispatch' = r.dispatch
        /\ event_log' = r.event_log
        /\ notifications' = r.notifications
        /\ vehicles' = r.vehicles
        /\ last' = Op("check_collisions", NoLight)
        /\ UNCHANGED <<lights, ticks, gameVars, verdict>>

\* CollisionDetector.check_collision(v1, v2)
CheckCollisionCall ==
    \E i \in 1..Len(vehicles), j \in 1..Len(vehicles) :
        /\ i # j
        /\ verdict' = Verdict("check_collision", <<i, j>>,
                              CheckCollision(vehicles[i], vehicles[j]))
        /\ last' = Op("check_collision", NoLight)
        /\ UNCHANGED <<lights, eventVars, vehicles, gameVars>>

\* a game in its course: the lights as the clicks have left them, the vehicles
\* of a scene
InitSpatial ==
    /\ \E s \in StateNames : lights = SceneLights(s)
    /\ last = Op("init", NoLight)
    /\ InitEventSystem
    /\ \E scene \in Scenes :
          /\ vehicles = scene
          /\ spawned = Len(scene)
    /\ spawn_timer = 0
    /\ spawn_interval = 20
    /\ paused = FALSE
    /\ game_over = FALSE
    /\ verdict = NoVerdict

NextSpatial ==
    \/ CheckTrafficLightsCall
    \/ CanPassTrafficLightCall
    \/ CheckVehicleAheadCall
    \/ CanMoveForwardCall
    \/ CheckCollisionsCall
    \/ CheckCollisionCall

SpecSpatial == InitSpatial /\ [][NextSpatial]_vars

-----------------------------------------------------------------------------
(* Frames of a game in its course, over scenes of one or two vehicles      *)

\* a vehicle of the game around its stop point, or two of one direction on
\* one lane, 79 or 80 apart, the follower or the leader first in the list
FrameScenes ==
    GateScenesOf("game")
    \cup {s \in SpacingScenes :
            /\ Len(s) = 2
            /\ s[1].direction = s[2].direction
            /\ s[1].x - s[2].x \in {-80, -79, 0, 79, 80}
            /\ s[1].y - s[2].y \in {-80, -79, 0, 79, 80}}
    \cup {<<s[2], s[1]>> : s \in
            {t \in SpacingScenes :
                /\ Len(t) = 2
                /\ t[1].direction = t[2].direction
                /\ t[1].x - t[2].x \in {-80, -79, 0, 79, 80}
                /\ t[1].y - t[2].y \in {-80, -79, 0, 79, 80}}}

InitFrames ==
    /\ \E s \in StateNames : lights = SceneLights(s)
    /\ last = Op("init", NoLight)
    /\ InitEventSystem
    /\ \E scene \in FrameScenes :
          /\ vehicles = scene
          /\ spawned = Len(scene)
    /\ spawn_timer = 0
    /\ spawn_interval = 20
    /\ paused = FALSE
    /\ game_over = FALSE
    /\ verdict = NoVerdict

NextFrames == Frame

SpecFrames == InitFrames /\ [][NextFrames]_vars

-----------------------------------------------------------------------------
(* Frames of a game in which vehicles are about to leave the screen        *)

\* a vehicle at the edge of the screen it is heading for
LeavingSpecies == {"car", "bus", "emergency"}
Leaving(id, species, direction) ==
    PutAlong(SpawnVehicle(id, species, direction),
             CASE direction = "right" -> WIDTH [] direction = "down" -> HEIGHT
               [] OTHER -> 0)

\* one vehicle about to leave, or two on opposite lanes
LeavingScenes ==
    {<<Leaving(1, sp, d)>> : sp \in LeavingSpecies, d \in Directions}
    \cup {<<Leaving(1, sp, d), Leaving(2, "car", Opposite(d))>> :
            sp \in LeavingSpecies, d \in Directions}

\* the numbers of vehicles that have passed before
PassedBefore == {0, 18, 19}

\* a game in its course at level 1: the lights of setup_intersection, some
\* vehicles passed, each for 10 points
InitLevels ==
    /\ InitIntersection
    /\ \E p \in PassedBefore :
          game_state = [NewGameState EXCEPT !.vehicles_passed = p,
                                            !.score = 10 * p]
    /\ event = NoEvent
    /\ dispatch = NoDispatch
    /\ event_log = <<>>
    /\ notifications = <<>>
    /\ ticks = 0
    /\ \E scene \in LeavingScenes :
          /\ vehicles = scene
          /\ spawned = Len(scene)
    /\ spawn_timer = 0
    /\ spawn_interval = 20
    /\ paused = FALSE
    /\ game_over = FALSE
    /\ verdict = NoVerdict

NextLevels == Frame

SpecLevels == InitLevels /\ [][NextLevels]_vars

-----------------------------------------------------------------------------
(* A session to its end: frames that collide vehicles, the frames of a     *)
(* game that is paused or over, the space bar, the R key, the clicks       *)

\* Game.update(dt) of a game that is paused or over: it returns at once,
\* while the clock of pygame runs on
HaltedFrame ==
    \E raw_dt \in FrameDts :
        /\ Halted(paused, game_over)
        /\ ticks + 1000 * raw_dt <= 1000 * MaxSeconds
        /\ ticks' = ticks + 1000 * raw_dt
        /\ last' = Op("update_halted", NoLight)
        /\ UNCHANGED <<lights, game_state, event, dispatch, event_log,
                       notifications, vehicles, gameVars, verdict>>

\* a constructor that leaves the event log of the session before in place
NewGameKeepsLog ==
    [game_state |-> NewGameState, event |-> NoEvent, dispatch |-> NoDispatch,
     event_log |-> event_log, notifications |-> <<>>,
     lights |-> SetupIntersection, vehicles |-> <<>>, spawn_timer |-> 0,
     spawn_interval |-> 20, spawned |-> 0, paused |-> FALSE,
     game_over |-> FALSE]

\* Game.__init__: the fields of a new game
NewGame ==
    [game_state |-> NewGameState, event |-> NoEvent, dispatch |-> NoDispatch,
     event_log |-> <<>>, notifications |-> <<>>,
     lights |-> SetupIntersection, vehicles |-> <<>>, spawn_timer |-> 0,
     spawn_interval |-> 20, spawned |-> 0, paused |-> FALSE,
     game_over |-> FALSE]

\* self.__init__() called on the game: every field is that of a new game;
\* the clock of pygame is not reset
Restart ==
    /\ \E g \in {NewGame} :
            /\ game_state' = g.game_state
            /\ event' = g.event
            /\ dispatch' = g.dispatch
            /\ event_log' = g.event_log
            /\ notifications' = g.notifications
            /\ lights' = g.lights
            /\ vehicles' = g.vehicles
            /\ spawn_timer' = g.spawn_timer
            /\ spawn_interval' = g.spawn_interval
            /\ spawned' = g.spawned
            /\ paused' = g.paused
            /\ game_over' = g.game_over
    /\ last' = Op("restart", NoLight)
    /\ UNCHANGED <<ticks, verdict>>

\* an R key that restarts a game at any time
PressRAtAnyTime == Restart

\* handle_events: K_r calls self.__init__() if the game is over, and does
\* nothing if it is not
PressR ==
    \/ /\ game_over
       /\ Restart
    \/ /\ ~game_over
       /\ last' = Op("key_r", NoLight)
       /\ UNCHANGED <<lights, eventVars, vehicles, gameVars, verdict>>

\* handle_events: a left click on a light of the game-over screen
ClickWhenOver ==
    /\ game_over
    /\ ClickLight

\* the vehicle that one update of dt seconds, free to move, brings to v
Approaching(v, dt) ==
    LET travelled ==
            Along(Advanced(VehicleUpdate(v, dt, TRUE, NoDraws), 0)) - Along(v)
    IN  [v EXCEPT !.x = IF v.direction \in {"left", "right"}
                        THEN @ - travelled ELSE @,
                  !.y = IF v.direction \in {"up", "down"}
                        THEN @ - travelled ELSE @]

\* a vehicle on the lane of its direction, at c along it
Crossing(id, species, direction, c) ==
    PutAlong(SpawnVehicle(id, species, direction), c)

\* the vehicles of a frame of dt seconds that brings them together inside
\* the intersection: a car heading right and a vehicle heading down, or a
\* truck heading down first in the list and a car on each lane it crosses;
\* and a pair that leaves the screen while another vehicle waits
MeetingScenes(dt) ==
    {<<Approaching(Crossing(1, "car", "right", 470), dt),
       Approaching(Crossing(2, sp, "down", 270), dt)>> :
        sp \in {"car", "emergency"}}
    \cup {<<Approaching(Crossing(1, "truck", "down", 300), dt),
            Approaching(Crossing(2, "car", "right", 470), dt),
            Approaching(Crossing(3, "car", "left", 470), dt)>>}
    \cup {<<Leaving(1, "car", "right"),
            Approaching(Crossing(2, "car", "down", 270), dt),
            Approaching(Crossing(3, "bus", "right", 470), dt)>>}

\* a game in its course with one or two lives left: every light green, the
\* vehicles about to meet; at full speed, or slowed by a slow_time power-up
InitSession ==
    /\ lights = SceneLights("GREEN")
    /\ last = Op("init", NoLight)
    /\ \E lives \in 1..2, slowed \in BOOLEAN :
          /\ game_state =
                [NewGameState EXCEPT
                    !.lives = lives,
                    !.collisions = 5 - lives,
                    !.time_scale = IF slowed THEN 50 ELSE 100,
                    !.power_up_duration = IF slowed THEN 5 ELSE 0]
          /\ \E scene \in MeetingScenes(IF slowed THEN 1 ELSE 2) :
                /\ vehicles = scene
                /\ spawned = Len(scene)
                /\ slowed \/ Len(scene) < MaxVehicles
    /\ event = NoEvent
    /\ dispatch = NoDispatch
    /\ event_log = <<>>
    /\ notifications = <<>>
    /\ ticks = 0
    /\ spawn_timer = 0
    /\ spawn_interval = 20
    /\ paused = FALSE
    /\ game_over = FALSE
    /\ verdict = NoVerdict

NextSession ==
    \/ Frame
    \/ HaltedFrame
    \/ TogglePause
    \/ PressR
    \/ ClickWhenOver

SpecSession == InitSession /\ [][NextSession]_vars

-----------------------------------------------------------------------------
(* A game in which power-ups are collected: the frames of a run long       *)
(* enough for both modifiers to run out                                     *)

\* the seconds a run with power-ups is followed for
MaxPowerUpSeconds == 8

TimedPowerUps == {"slow_time", "score_multiplier"}

\* EventSystem.emit_event of a power_up between two frames
CollectPowerUp ==
    \E t \in TimedPowerUps :
        /\ ~Halted(paused, game_over)
        /\ Cardinality({i \in 1..Len(event_log) : event_log[i].type = "power_up"})
                < MaxEmits
        /\ Emit("power_up", [NoData EXCEPT !.type = t])

LongFrame == FrameUntil(1000 * MaxPowerUpSeconds)

NextPowerUps ==
    \/ LongFrame
    \/ CollectPowerUp

SpecPowerUps == Init /\ [][NextPowerUps]_vars

-----------------------------------------------------------------------------
(* Properties of the traffic lights                                        *)

Automatic(l) == ~lights[l].manual_override

\* the cyclic order Green -> Yellow -> Red -> Green
CyclicOrder == [GREEN |-> "YELLOW", YELLOW |-> "RED", RED |-> "GREEN"]

\* the configured durations, per phase
ConfiguredDuration ==
    [GREEN |-> GREEN_DURATION, YELLOW |-> YELLOW_DURATION, RED |-> RED_DURATION]

\* C1: right after TrafficLightController.update no automatic horizontal
\* light and automatic vertical light both let pass.
C1_CoordinationInvariant ==
    last.op = "controller_update" =>
        \A h \in HorizontalLights, v \in VerticalLights :
            ~(Automatic(h) /\ Automatic(v) /\ CanPass(lights[h]) /\ CanPass(lights[v]))

\* a controller update that left an automatic horizontal light freshly green
\* and both automatic vertical lights freshly red
C1_Witness ==
    /\ last.op = "controller_update"
    /\ Automatic("h1") /\ lights["h1"].state = "GREEN" /\ lights["h1"].time_in_state = 0
    /\ \A v \in VerticalLights :
        Automatic(v) /\ lights[v].state = "RED" /\ lights[v].time_in_state = 0

\* C2: a light in manual mode keeps phase and elapsed time through every
\* update, and its phase changes only by a cycle or force command on it.
C2_ManualFrozen ==
    [][\A l \in TrafficLights :
        lights[l].manual_override =>
            /\ last'.op \in {"update", "controller_update"} => lights'[l] = lights[l]
            /\ lights'[l].state # lights[l].state =>
                /\ last'.op \in {"cycle_state", "force_green", "force_red", "force_yellow"}
                /\ last'.light = l]_vars

\* a controller update over a light held in manual mode in the middle of Green
C2_Witness ==
    /\ last.op = "controller_update"
    /\ \E l \in TrafficLights :
        /\ lights[l].manual_override
        /\ lights[l].state = "GREEN"
        /\ lights[l].time_in_state > 0

\* C3: cycle_state on a manual light moves exactly one step in the cyclic
\* order whatever the elapsed time, and two more calls restore the phase.
C3_CycleRoundTrip ==
    [][last'.op = "cycle_state" =>
        LET l == last'.light
            twice == CycleState(lights'[l])
            thrice == CycleState(twice)
        IN  /\ lights'[l].state = CyclicOrder[lights[l].state]
            /\ twice.state = CyclicOrder[lights'[l].state]
            /\ thrice.state = lights[l].state
            /\ thrice.state # twice.state /\ twice.state # lights'[l].state]_vars

\* a cycle_state that has just brought a manual light from Red to Green
C3_Witness ==
    /\ last.op = "cycle_state"
    /\ lights[last.light].manual_override
    /\ lights[last.light].state = "GREEN"

\* what the timer rule gives for an automatic light after dt
TimerRule(light, dt) ==
    IF light.time_in_state + dt >= ConfiguredDuration[light.state]
    THEN [state |-> CyclicOrder[light.state], time_in_state |-> 0,
          manual_override |-> light.manual_override]
    ELSE [state |-> light.state, time_in_state |-> light.time_in_state + dt,
          manual_override |-> light.manual_override]

\* C4: update(dt) of an automatic light adds dt to the elapsed time and moves
\* to the successor with the time reset exactly when the elapsed time reaches
\* the duration of the phase; a light has exactly one phase.
C4_AutoTimer ==
    \A l \in TrafficLights :
        /\ lights[l].state \in StateNames
        /\ lights[l].time_in_state \in 0..(ConfiguredDuration[lights[l].state] - 1)
        /\ Automatic(l) =>
            \A dt \in 0..(2 * MaxDt) :
                TrafficLightUpdate(lights[l], dt) = TimerRule(lights[l], dt)

\* an update has just moved an automatic light from Red to Green by its timer
C4_Witness ==
    /\ last.op = "update"
    /\ Automatic(last.light)
    /\ lights[last.light].state = "GREEN"
    /\ lights[last.light].time_in_state = 0

-----------------------------------------------------------------------------
(* Properties of the event pipeline                                        *)

Emitted == last.op = "emit_event"

\* C7: a collision event with two vehicles takes 300 points if either is an
\* emergency vehicle and 100 otherwise, never below 0, takes one life, counts
\* one collision and lists exactly the two participants for removal.
C7_CollisionEffect ==
    [][(last'.op = "emit_event" /\ event'.event_type = "collision"
            /\ event'.data.vehicle1 # NoVehicle /\ event'.data.vehicle2 # NoVehicle) =>
        LET v1 == event'.data.vehicle1
            v2 == event'.data.vehicle2
            penalty == IF v1.species = "emergency" \/ v2.species = "emergency"
                       THEN 300 ELSE 100
        IN  /\ game_state'.score =
                IF game_state.score - penalty > 0 THEN game_state.score - penalty ELSE 0
            /\ game_state'.lives = game_state.lives - 1
            /\ game_state'.collisions = game_state.collisions + 1
            /\ event'.data.remove_vehicles = <<v1, v2>>]_vars

\* a collision of a car with an emergency vehicle has taken 300 of 400 points
C7_Witness ==
    /\ Emitted
    /\ event.event_type = "collision"
    /\ event.data.vehicle1.species = "car"
    /\ event.data.vehicle2.species = "emergency"
    /\ event.response.penalty = 300
    /\ game_state.score = 100
    /\ game_state.collisions = 1
    /\ Len(event.data.remove_vehicles) = 2

\* C9: every emitted event is offered to the six handlers in their fixed
\* order, the handlers before the logger never end the dispatch, and the
\* event comes back logged and marked handled.
C9_DispatchReachesLogging ==
    Emitted =>
        /\ dispatch.offered =
            <<"CollisionHandler", "TrafficViolationHandler", "ScoreHandler",
              "PowerUpHandler", "CongestionHandler", "LoggingHandler">>
        /\ dispatch.processed # <<>>
        /\ dispatch.processed[Len(dispatch.processed)] = "LoggingHandler"
        /\ event.handled
        /\ event_log # <<>>
        /\ event_log[Len(event_log)].type = event.event_type
        /\ event_log[Len(event_log)].response = event.response

\* a collision processed by the collision handler and then by the logger
C9_Witness ==
    /\ Emitted
    /\ event.event_type = "collision"
    /\ dispatch.processed = <<"CollisionHandler", "LoggingHandler">>
    /\ event.handled

\* C10: vehicle_passed awards 10 points, 30 for an emergency vehicle and 20
\* for a bus, and counts one passed vehicle; smooth_flow awards 50 and
\* perfect_timing 25 without counting a vehicle.
C10_ScoreAwards ==
    [][last'.op = "emit_event" =>
        LET v == event'.data.vehicle
            award == IF v.species = "emergency" THEN 30
                     ELSE IF v.species = "bus" THEN 20
                     ELSE 10
        IN  /\ event'.event_type = "vehicle_passed" =>
                /\ game_state'.score = game_state.score + award
                /\ game_state'.vehicles_passed = game_state.vehicles_passed + 1
            /\ event'.event_type = "smooth_flow" =>
                /\ game_state'.score = game_state.score + 50
                /\ game_state'.vehicles_passed = game_state.vehicles_passed
            /\ event'.event_type = "perfect_timing" =>
                /\ game_state'.score = game_state.score + 25
                /\ game_state'.vehicles_passed = game_state.vehicles_passed]_vars

\* a bus has passed while the score multiplier was active: 20 points
C10_Witness ==
    /\ Emitted
    /\ event.event_type = "vehicle_passed"
    /\ event.data.vehicle.species = "bus"
    /\ event.response.points = 20
    /\ game_state.score_multiplier = 200
    /\ game_state.score = 20
    /\ game_state.vehicles_passed = 1

\* the fields of game_state other than those of S are left as they were
OnlyChanges(S) ==
    \A f \in (DOMAIN game_state) \ S : game_state'[f] = game_state[f]

\* the score after a penalty, never below 0
Clamped(score, penalty) == IF score - penalty > 0 THEN score - penalty ELSE 0

\* the penalty of a violation subtype
SubtypePenalty(type) ==
    CASE type = "red_light" -> 50
      [] type = "speeding" -> 30
      [] type = "wrong_lane" -> 40
      [] type = "emergency_obstruction" -> 200
      [] OTHER -> 25

\* C11 as stated: an event of kind violation takes the penalty of its
\* subtype from the score, clamped at 0, and counts one violation.
C11_ViolationKindPenalized ==
    [][(last'.op = "emit_event" /\ event'.event_type = "violation") =>
        /\ game_state'.score = Clamped(game_state.score, SubtypePenalty(event'.data.type))
        /\ game_state'.violations = game_state.violations + 1]_vars

\* C11, amended: an event of kind traffic_violation takes the penalty of its
\* subtype (50, 30, 40, 200, any other 25) from the score, clamped at 0, and
\* counts one violation; an event of kind violation changes no field.
C11_TrafficViolationPenalized ==
    [][last'.op = "emit_event" =>
        /\ event'.event_type = "traffic_violation" =>
            /\ game_state'.score =
                Clamped(game_state.score, SubtypePenalty(event'.data.type))
            /\ game_state'.violations = game_state.violations + 1
            /\ OnlyChanges({"score", "violations"})
        /\ event'.event_type = "violation" => OnlyChanges({})]_vars

\* an unlisted subtype has taken the default 25 of 100 points
C11_Witness ==
    /\ Emitted
    /\ event.event_type = "traffic_violation"
    /\ event.data.type = "parking"
    /\ event.response.penalty = 25
    /\ game_state.score = 75
    /\ game_state.violations = 1

\* C12: a power_up has exactly the effect of its subtype: slow_time sets
\* time_scale 0.5 for 5 s, extra_life adds one life, score_multiplier sets
\* the multiplier 2 for 10 s, clear_traffic only flags the event, and an
\* unlisted subtype changes no field of game_state.
C12_PowerUpEffect ==
    [][(last'.op = "emit_event" /\ event'.event_type = "power_up") =>
        LET type == event'.data.type
        IN  /\ type = "slow_time" =>
                /\ game_state'.time_scale = 50
                /\ game_state'.power_up_duration = 5
                /\ OnlyChanges({"time_scale", "power_up_duration"})
            /\ type = "extra_life" =>
                /\ game_state'.lives = game_state.lives + 1
                /\ OnlyChanges({"lives"})
            /\ type = "score_multiplier" =>
                /\ game_state'.score_multiplier = 200
                /\ game_state'.multiplier_duration = 10
                /\ OnlyChanges({"score_multiplier", "multiplier_duration"})
            /\ type = "clear_traffic" =>
                /\ event'.data.clear_vehicles
                /\ OnlyChanges({})
            /\ type \notin {"slow_time", "extra_life", "score_multiplier",
                            "clear_traffic"} =>
                /\ ~event'.data.clear_vehicles
                /\ OnlyChanges({})
            /\ event'.data.clear_vehicles => type = "clear_traffic"]_vars

\* a second slow_time has set the scale and the duration as the first did
C12_Witness ==
    /\ Emitted
    /\ Len(event_log) = 2
    /\ event_log[1].data.type = "slow_time"
    /\ event.event_type = "power_up"
    /\ event.data.type = "slow_time"
    /\ game_state.time_scale = 50
    /\ game_state.power_up_duration = 5

\* C13: a congestion event takes the penalty of its tier (low 5, medium 15,
\* high 30, critical 50) from the score, clamped at 0, and changes no other
\* field of game_state.
C13_CongestionPenalty ==
    [][(last'.op = "emit_event" /\ event'.event_type = "congestion") =>
        LET level == event'.data.level
            tiers == [low |-> 5, medium |-> 15, high |-> 30, critical |-> 50]
        IN  /\ level \in DOMAIN tiers =>
                game_state'.score = Clamped(game_state.score, tiers[level])
            /\ OnlyChanges({"score"})]_vars

\* a congestion of the high tier has left 0 of 20 points
C13_Witness ==
    /\ Emitted
    /\ event.event_type = "congestion"
    /\ event.data.level = "high"
    /\ event.response.penalty = 30
    /\ Len(event_log) = 1
    /\ game_state.score = 0
    /\ game_state.lives = 5

-----------------------------------------------------------------------------
(* Properties of a game                                                    *)

\* the log entries written by the step
NewEntries == SubSeq(event_log', Len(event_log) + 1, Len(event_log'))

\* the collision events among the entries that carried both participants
CollisionsIn(entries) ==
    Cardinality({i \in 1..Len(entries) :
        /\ entries[i].type = "collision"
        /\ entries[i].data.vehicle1 # NoVehicle
        /\ entries[i].data.vehicle2 # NoVehicle})

\* C5: the score is never negative, whatever frames have run and whatever
\* events of any kind have been emitted; every penalty is clamped at 0.
C5_ScoreNonNegative == game_state.score >= 0

\* a frame's collision has taken a penalty above the score an award had
\* given, and has left the score at 0
C5_Witness ==
    /\ last.op = "update"
    /\ Len(event_log) = 2
    /\ event_log[1].response.points > 0
    /\ event_log[2].type = "collision"
    /\ event_log[2].response.penalty > event_log[1].response.points
    /\ game_state.score = 0

-----------------------------------------------------------------------------
(* Properties of the vehicles                                              *)

\* the maximum speed of each species
SpeciesMaxSpeed ==
    [car |-> 150, fast_car |-> 250, bus |-> 100, truck |-> 80, emergency |-> 200]

\* C8: the speed of every vehicle stays within 0 and the maximum speed of
\* its species after every update, whatever the order of can_move values.
C8_SpeedWithinLimits ==
    \A i \in 1..Len(vehicles) :
        /\ 0 <= vehicles[i].speed
        /\ vehicles[i].speed <= SpeciesMaxSpeed[vehicles[i].species]
        /\ GetMaxSpeed(vehicles[i].species) = SpeciesMaxSpeed[vehicles[i].species]

\* a truck in the middle of its slower brake: 80 - 1.5 * 30 * 1 = 35
C8_Witness ==
    /\ last.op = "update_cannot_move"
    /\ Len(vehicles) = 1
    /\ vehicles[1].species = "truck"
    /\ vehicles[1].stopped
    /\ vehicles[1].speed = 35

-----------------------------------------------------------------------------
(* Properties of check_congestion                                          *)

\* the vehicles of the list that are stopped
StoppedCount == Cardinality({i \in 1..Len(vehicles) : vehicles[i].stopped})

\* the tier of a count of stopped vehicles
Tier(n) ==
    IF n > 15 THEN "critical" ELSE IF n > 10 THEN "high"
    ELSE IF n > 5 THEN "medium" ELSE IF n > 3 THEN "low" ELSE "none"

\* C14: the congestion event of check_congestion has the level of the count
\* of stopped vehicles alone (above 15 critical, above 10 high, above 5
\* medium, above 3 low) and carries that count; up to 3 stopped vehicles no
\* event is emitted; with 12 stopped every event is high.
C14_CongestionByStoppedCount ==
    [][last'.op = "check_congestion" =>
        /\ StoppedCount <= 3 => NewEntries = <<>>
        /\ Len(NewEntries) <= 1
        /\ \A i \in 1..Len(NewEntries) :
            /\ NewEntries[i].type = "congestion"
            /\ NewEntries[i].data.level = Tier(StoppedCount)
            /\ NewEntries[i].data.waiting_vehicles = StoppedCount
            /\ StoppedCount = 12 => NewEntries[i].data.level = "high"]_vars

\* twelve stopped vehicles beside a moving one have made a high congestion
C14_Witness ==
    /\ last.op = "check_congestion"
    /\ StoppedCount = 12
    /\ Len(vehicles) = 13
    /\ event.event_type = "congestion"
    /\ event.data.level = "high"
    /\ event.data.waiting_vehicles = 12
    /\ event.response.penalty = 30

-----------------------------------------------------------------------------
(* Properties of the spatial checks                                        *)

\* the light that gates the approach of v
GatingLight(v) ==
    CASE v.direction = "right" -> "h1" [] v.direction = "left" -> "h2"
      [] v.direction = "down" -> "v1" [] v.direction = "up" -> "v2"

LightGates == {"check_traffic_lights", "can_pass_traffic_light"}

\* the vehicle the last light gate was asked about, and the stop point that
\* gate computes for it
Gated == vehicles[verdict.subject[1]]
StopPointOfGate ==
    IF last.op = "check_traffic_lights" THEN GameStopPoint(Gated)
    ELSE LibraryStopPoint(Gated)

\* the light of the approach of the gated vehicle does not let pass
LightDisallows == ~CanPass(lights[GatingLight(Gated)])

\* the gated vehicle is n units past its stop point
PastStopPoint(n) ==
    Along(Gated) = Along(Advanced(PutAlong(Gated, StopPointOfGate), n))

\* C15: a vehicle of any species and direction that is exactly at its
\* computed stop point while the light of its approach does not let pass is
\* refused by the light gate.
C15_GatedAtStopPoint ==
    (last.op \in LightGates /\ PastStopPoint(0) /\ LightDisallows)
        => ~verdict.result

\* C16 as stated: one unit past its stop point a vehicle is let through by
\* the light gate even when the light does not let pass.
C16_FreeOnePastStopPoint ==
    (last.op \in LightGates /\ LightDisallows /\ PastStopPoint(1))
        => verdict.result

\* C16, amended: one unit past its stop point a vehicle is still refused by
\* the light gate when the light does not let pass; it is one unit short of
\* its stop point that it is let through whatever the light shows.
C16_GatedOnePastFreeOneShort ==
    (last.op \in LightGates /\ LightDisallows) =>
        /\ PastStopPoint(1) => ~verdict.result
        /\ PastStopPoint(-1) => verdict.result

\* a bus heading left, one unit past its stop point at a red light, has been
\* refused by the gate of the game
C16_Witness ==
    /\ last.op = "check_traffic_lights"
    /\ Gated.species = "bus"
    /\ Gated.direction = "left"
    /\ Gated.x = GameStopPoint(Gated) - 1
    /\ lights["h2"].state = "RED"
    /\ ~verdict.result

FollowingGates == {"check_vehicle_ahead", "can_move_forward"}

\* the vehicles strictly ahead of v with its direction and on its lane, the
\* lateral offset within the tolerance of 30
AheadOnLane(v) ==
    {i \in 1..Len(vehicles) :
        LET other == vehicles[i]
        IN  /\ other.id # v.id
            /\ other.direction = v.direction
            /\ IF v.direction \in {"right", "down"}
               THEN Along(other) > Along(v) ELSE Along(other) < Along(v)
            /\ IF v.direction \in {"left", "right"}
               THEN other.y - v.y \in -29..29
               ELSE other.x - v.x \in -29..29}

\* the gap from v to the vehicle at position i of the list
GapTo(v, i) ==
    IF Along(vehicles[i]) > Along(v) THEN Along(vehicles[i]) - Along(v)
    ELSE Along(v) - Along(vehicles[i])

\* C17: the following gate lets a vehicle move iff no vehicle is strictly
\* ahead of it with its direction and on its lane, or the gap to the nearest
\* one is at least the safety distance of 90 plus half the sum of the
\* lengths of the two.
C17_FollowingGate ==
    last.op \in FollowingGates =>
        LET v == vehicles[verdict.subject[1]]
            ahead == AheadOnLane(v)
        IN  verdict.result <=>
                \/ ahead = {}
                \/ \E i \in ahead :
                    /\ \A j \in ahead : GapTo(v, i) <= GapTo(v, j)
                    /\ 2 * GapTo(v, i) >=
                        2 * 90 + GetSize(v.species)[1]
                        + GetSize(vehicles[i].species)[1]

\* C18: check_collisions emits a collision for a pair iff both vehicles are
\* inside the intersection box, their directions differ and their oriented
\* footprints overlap; a pair of one direction never collides; and
\* CollisionDetector.check_collision gives the same answer on every pair.
C18_CollisionTest ==
    [][/\ (last'.op = "check_collisions" /\ Len(vehicles) = 2) =>
            /\ (Len(event_log') > Len(event_log)) <=>
                    /\ vehicles[1].x \in 400..599 /\ vehicles[1].y \in 200..399
                    /\ vehicles[2].x \in 400..599 /\ vehicles[2].y \in 200..399
                    /\ vehicles[1].direction # vehicles[2].direction
                    /\ CollideRect(GetRect(vehicles[1]), GetRect(vehicles[2]))
            /\ vehicles[1].direction = vehicles[2].direction
                    => event_log' = event_log
       /\ last'.op = "check_collision" =>
            verdict'.result = PairCollides(vehicles[verdict'.subject[1]],
                                           vehicles[verdict'.subject[2]])]_vars

-----------------------------------------------------------------------------
(* Properties of the vehicle loop of a frame                               *)

\* the simulated seconds of the frame being taken
FrameDt == (((ticks' - ticks) \div 1000) * game_state.time_scale) \div 100

\* the vehicles a frame may have spawned: none when the count of spawns has
\* not moved, else one of each species and direction, and the one found in
\* the list after the frame if it is still there
FreshLists ==
    IF spawned' = spawned THEN {<<>>}
    ELSE {<<SpawnVehicle(spawned + 1, c.species, c.direction)>> :
            c \in {c \in SpawnChoices :
                    \A j \in 1..Len(vehicles') :
                        vehicles'[j].id = spawned + 1 =>
                            /\ vehicles'[j].species = c.species
                            /\ vehicles'[j].direction = c.direction}}

\* the vehicle of the list after the frame that has the identity of v
After(v) == CHOOSE w \in {vehicles'[j] : j \in 1..Len(vehicles')} : w.id = v.id
Survives(v) == \E j \in 1..Len(vehicles') : vehicles'[j].id = v.id

\* the list as the loop shows it to the k-th vehicle of start: the earlier
\* ones updated, those that left the screen removed, the later ones as they
\* were
SeenBy(start, k) ==
    SelectSeq(vehicles', LAMBDA w : \E j \in 1..(k - 1) : start[j].id = w.id)
    \o SubSeq(start, k, Len(start))

\* the frame has removed no vehicle in a collision
NoCollision == \A i \in 1..Len(NewEntries) : NewEntries[i].type # "collision"

\* C19: in a frame every vehicle of the list the loop starts from (the
\* vehicles and, at its end, the one the frame has spawned) is updated with
\* can_move = light gate and following gate; after it stopped = ~can_move,
\* and waiting_time is 0 when it could move and has grown by dt when it
\* could not.
C19_CanMoveIsBothGates ==
    [][(last'.op = "update" /\ NoCollision) =>
        \E fresh \in FreshLists :
            LET start == vehicles \o fresh
            IN  \A k \in 1..Len(start) :
                    Survives(start[k]) =>
                        LET v == start[k]
                            can_move == /\ CheckTrafficLights(v, lights')
                                        /\ CheckVehicleAhead(v, SeenBy(start, k))
                        IN  /\ After(v).stopped = ~can_move
                            /\ After(v).waiting_time =
                                IF can_move THEN 0
                                ELSE v.waiting_time + FrameDt]_vars

\* a frame has held a follower behind its leader at a green light, for the
\* 2 seconds of the frame, and has let the leader go
C19_Witness ==
    /\ last.op = "update"
    /\ lights["h1"].state = "GREEN"
    /\ Len(vehicles) = 3
    /\ vehicles[1].direction = "right"
    /\ vehicles[2].direction = "right"
    /\ vehicles[1].stopped
    /\ vehicles[1].waiting_time = 2
    /\ ~vehicles[2].stopped
    /\ vehicles[2].waiting_time = 0

-----------------------------------------------------------------------------
(* Properties of the level                                                 *)

\* C20: the level never decreases, and at the end of every frame it is
\* 1 + (vehicles_passed div 20), however many frames pass between two
\* vehicles.
C20_LevelFollowsPassed ==
    [][/\ game_state'.level >= game_state.level
       /\ last'.op = "update" =>
            game_state'.level = 1 + (game_state'.vehicles_passed \div 20)]_vars

-----------------------------------------------------------------------------
(* Properties of a session: the pause, the end of the game, the restart    *)

\* the state of the simulation: everything Game.update reads or writes but
\* the clock
Simulation ==
    <<lights, game_state, event, dispatch, event_log, notifications, vehicles,
      spawn_timer, spawn_interval, spawned, paused, game_over>>

\* C21: a call of Game.update(dt) on a game that is paused or over changes
\* nothing, whatever dt and however many calls came before: the game state
\* with its power-up durations, the lights, the spawn timer, the vehicles
\* are as they were and no event is emitted.
C21_HaltedUpdateChangesNothing ==
    [][((paused \/ game_over) /\ last'.op \in {"update", "update_halted"})
            => UNCHANGED Simulation]_vars

\* update has been called twice on a paused game that holds vehicles, by
\* which time the spawn timer would have run out
C21_Witness ==
    /\ last.op = "update_halted"
    /\ paused
    /\ ~game_over
    /\ ticks >= 4000
    /\ event_log = <<>>
    /\ Len(vehicles) >= 2
    /\ spawn_timer = 0

\* what a frame of the simulation works on
Simulated ==
    <<game_state, event_log, vehicles, spawn_timer, spawn_interval, spawned>>

\* a frame that ends with no life left sets game_over; game_over stays set
\* until a restart; a restart happens only while game_over is set
GameOverLatch ==
    /\ (last'.op = "update" /\ game_state'.lives <= 0) => game_over'
    /\ (game_over /\ last'.op # "restart") => game_over'
    /\ last'.op = "restart" => game_over

\* C22 as stated: a frame that ends with lives <= 0 sets game_over; from
\* then on game_over stays set and the state of the simulation, the lights
\* included, is frozen until a restart, which happens only while game_over
\* is set.
C22_FrozenUntilRestart ==
    [][/\ GameOverLatch
       /\ (game_over /\ last'.op # "restart") =>
            UNCHANGED <<Simulated, lights>>]_vars

\* C22 amended: as above, except that a click still cycles a light of a
\* game that is over: the lights change by a click and by nothing else.
C22_FrozenButForClicks ==
    [][/\ GameOverLatch
       /\ (game_over /\ last'.op # "restart") =>
            /\ UNCHANGED Simulated
            /\ lights' # lights => last'.op = "click"]_vars

\* update has been called on a game that a collision has ended, and a green
\* light has been clicked to yellow since
C22_Witness ==
    /\ game_over
    /\ game_state.lives <= 0
    /\ last.op = "update_halted"
    /\ \E l \in TrafficLights : lights[l].state = "YELLOW"
    /\ Len(event_log) > 0

\* C23: a restart leaves the state of a new session: score 0, lives 5,
\* level 1, the counters 0, time_scale and score_multiplier 1 with durations
\* 0, no vehicle, spawn timer 0 and interval 2.0, the four lights red at
\* time 0, no notification, an empty event log, neither paused nor over.
C23_RestartIsNewSession ==
    [][last'.op = "restart" =>
        /\ game_state' =
            [score |-> 0, lives |-> 5, level |-> 1, vehicles_passed |-> 0,
             collisions |-> 0, violations |-> 0, time_scale |-> 100,
             power_up_duration |-> 0, score_multiplier |-> 100,
             multiplier_duration |-> 0]
        /\ vehicles' = <<>>
        /\ spawn_timer' = 0
        /\ spawn_interval' = 20
        /\ \A l \in TrafficLights :
            lights'[l].state = "RED" /\ lights'[l].time_in_state = 0
        /\ notifications' = <<>>
        /\ event_log' = <<>>
        /\ ~paused'
        /\ ~game_over']_vars

\* a game that ended has been restarted
C23_Witness ==
    /\ last.op = "restart"
    /\ ticks >= 2000
    /\ game_state.lives = 5
    /\ event_log = <<>>

-----------------------------------------------------------------------------
(* Properties of the removal of vehicles                                   *)

\* the identities of the vehicles an event of the log reports
Reported(entry) ==
    {r.id : r \in {entry.data.vehicle1, entry.data.vehicle2, entry.data.vehicle}}
    \ {NoVehicle.id}

\* the identities of the vehicles of the list
Live == {vehicles[i].id : i \in 1..Len(vehicles)}

\* C24: once check_collisions has completed, no participant of a collision
\* event is in the list of vehicles, and no later event reports a vehicle
\* that a collision has removed.
C24_RemovedForGood ==
    \A i \in 1..Len(event_log) :
        event_log[i].type = "collision" =>
            /\ Reported(event_log[i]) \cap Live = {}
            /\ \A j \in (i + 1)..Len(event_log) :
                Reported(event_log[i]) \cap Reported(event_log[j]) = {}

\* the positions in a part of the log of the vehicle_passed events, of those
\* that report the vehicle id, and of the collisions that report it
PassedIn(entries) ==
    {i \in 1..Len(entries) : entries[i].type = "vehicle_passed"}
PassedOf(entries, id) ==
    {i \in PassedIn(entries) : entries[i].data.vehicle.id = id}
CollidedOf(entries, id) ==
    {i \in 1..Len(entries) :
        entries[i].type = "collision" /\ id \in Reported(entries[i])}

\* beyond the visible area by more than the margin of 100
Beyond(v) ==
    v.x < -100 \/ v.x > WIDTH + 100 \/ v.y < -100 \/ v.y > HEIGHT + 100

\* the positions the update of the frame can have brought v to
UpdatedTo(v) ==
    {VehicleUpdate(v, FrameDt, can_move, rnd) :
        can_move \in BOOLEAN, rnd \in Draws(v)}

\* C25: a frame leaves no vehicle in the list beyond the margin; it removes
\* a vehicle with a vehicle_passed event exactly when its update has taken
\* it beyond the margin, and otherwise only as a participant of a collision;
\* no vehicle has two vehicle_passed events, none has one and a collision,
\* and vehicles_passed counts the vehicle_passed events, one per vehicle
\* that left the screen.
C25_PassedIsLeftTheScreen ==
    /\ [](/\ game_state.vehicles_passed = Cardinality(PassedIn(event_log))
          /\ \A id \in 1..spawned :
                /\ Cardinality(PassedOf(event_log, id)) <= 1
                /\ PassedOf(event_log, id) = {} \/ CollidedOf(event_log, id) = {}
                /\ id \in Live =>
                    PassedOf(event_log, id) \cup CollidedOf(event_log, id) = {})
    /\ [][last'.op = "update" =>
            /\ \A i \in 1..Len(vehicles') : ~Beyond(vehicles'[i])
            /\ \A k \in 1..Len(vehicles) :
                LET v == vehicles[k]
                IN  /\ (\A u \in UpdatedTo(v) : Beyond(u))
                            => PassedOf(NewEntries, v.id) # {}
                    /\ PassedOf(NewEntries, v.id) # {}
                            => (\E u \in UpdatedTo(v) : Beyond(u))
                    /\ ~Survives(v) <=>
                            \/ PassedOf(NewEntries, v.id) # {}
                            \/ CollidedOf(NewEntries, v.id) # {}
            /\ \A i \in PassedIn(NewEntries) :
                NewEntries[i].data.vehicle.id \in Live \cup (spawned + 1)..spawned']_vars

\* a frame has seen one vehicle leave the screen and two others collide
C25_Witness ==
    /\ last.op = "update"
    /\ game_state.vehicles_passed = 1
    /\ PassedOf(event_log, 1) # {}
    /\ CollidedOf(event_log, 2) # {}
    /\ CollidedOf(event_log, 3) # {}
    /\ 1 \notin Live

-----------------------------------------------------------------------------
(* Properties of the commands on a light                                   *)

\* the phase a command asks for on a light in the given phase
Asked(name, state) ==
    CASE name = "force_green" -> "GREEN"
      [] name = "force_red" -> "RED"
      [] name = "force_yellow" -> "YELLOW"
      [] name = "cycle_state" -> CyclicOrder[state]

\* C26: force_red, force_green, force_yellow and cycle_state called on a
\* light in manual mode put it in the phase asked for with elapsed time 0;
\* called on a light in automatic mode they leave phase and elapsed time as
\* they were; neither changes the mode, nor any other light.
C26_CommandsNeedManual ==
    [][last'.op \in CommandNames =>
        LET l == last'.light
        IN  /\ IF lights[l].manual_override
               THEN /\ lights'[l].state = Asked(last'.op, lights[l].state)
                    /\ lights'[l].time_in_state = 0
               ELSE /\ lights'[l].state = lights[l].state
                    /\ lights'[l].time_in_state = lights[l].time_in_state
            /\ lights'[l].manual_override = lights[l].manual_override
            /\ \A m \in TrafficLights \ {l} : lights'[m] = lights[m]]_vars

\* force_green has been called on an automatic light that has been red for
\* some time, and has left it so
C26_Witness ==
    /\ last.op = "force_green"
    /\ ~lights[last.light].manual_override
    /\ lights[last.light].state = "RED"
    /\ lights[last.light].time_in_state > 0

-----------------------------------------------------------------------------
(* Properties of the light gate for a vehicle with priority                *)

\* the centre of the screen of the last gate along the travel of the gated
\* vehicle
CentreOfGate ==
    IF last.op = "check_traffic_lights"
    THEN (IF Gated.direction \in {"left", "right"} THEN WIDTH ELSE HEIGHT) \div 2
    ELSE (IF Gated.direction \in {"left", "right"}
          THEN SCREEN_WIDTH ELSE SCREEN_HEIGHT) \div 2

\* the gated vehicle is within the proximity threshold of 150
WithinThreshold == Abs(Along(Gated) - CentreOfGate) < 150

\* the gated vehicle is between its stop point and the near edge of the
\* intersection, 50 before the centre
InGatingZone ==
    IF Gated.direction \in {"right", "down"}
    THEN Along(Gated) >= StopPointOfGate /\ Along(Gated) < CentreOfGate - 50
    ELSE Along(Gated) <= StopPointOfGate /\ Along(Gated) > CentreOfGate + 50

\* C27: for an emergency vehicle the light gate returns true whatever the
\* light shows while the vehicle is not within the proximity threshold, and
\* returns what the light allows while it is within the threshold and inside
\* the gating zone.
C27_PriorityBypass ==
    (last.op \in LightGates /\ Gated.species = "emergency") =>
        /\ ~WithinThreshold => verdict.result
        /\ (WithinThreshold /\ InGatingZone) =>
                verdict.result = CanPass(lights[GatingLight(Gated)])

-----------------------------------------------------------------------------
(* Properties of the spatial checks as queries                             *)

\* the light gates, the following gates and the collision test of a pair
SpatialQueries == LightGates \cup FollowingGates \cup {"check_collision"}

\* C28: a light gate, a following gate or a collision check asked about any
\* vehicle leaves every vehicle and every light as it was.
C28_QueriesArePure ==
    [][last'.op \in SpatialQueries =>
        /\ vehicles' = vehicles
        /\ lights' = lights]_vars

-----------------------------------------------------------------------------
(* Properties of the log and of the notifications                          *)

\* the record of the event just emitted, with the response it left the
\* scoring handlers with
RecordOfEmitted ==
    [type |-> event'.event_type, data |-> event'.data,
     response |-> event'.response, timestamp |-> ticks]

\* C29: the log never holds more than 100 records; every emitted event is
\* appended once, with its response, after the records before it, and the
\* oldest record is dropped when that makes 101: after k events the log
\* holds the min(k, 100) most recent in the order of emission.
C29_LogKeepsLastHundred ==
    /\ [](Len(event_log) <= 100)
    /\ [][last'.op = "emit_event" =>
            /\ event_log' =
                IF Len(event_log) < 100
                THEN Append(event_log, RecordOfEmitted)
                ELSE Append(Tail(event_log), RecordOfEmitted)
            /\ Len(event_log') = Min(Len(event_log) + 1, 100)]_vars

\* 102 events have been emitted: the log holds the third to the hundredth of
\* the earlier ones, then a collision with its response, then the last
C29_Witness ==
    /\ Len(event_log) = 100
    /\ event_log[1] = EarlierRecord(3)
    /\ event_log[98] = EarlierRecord(100)
    /\ event_log[99].type = "collision"
    /\ event_log[99].response.penalty = 300
    /\ event_log[100].type = "vehicle_passed"

\* the event just emitted is of a kind for which no handler writes a message
Unanswered ==
    \/ event'.event_type = "unknown"
    \/ /\ event'.event_type = "power_up"
       /\ event'.data.type \notin
            {"slow_time", "extra_life", "score_multiplier", "clear_traffic"}
    \/ /\ event'.event_type = "collision"
       /\ NoVehicle \in {event'.data.vehicle1, event'.data.vehicle2}

\* C30: an emit_event that ends with a response message appends one
\* notification with that message, its severity, the clock and the display
\* time of 2000 ms; one that ends without a message (an unknown kind, an
\* unknown power-up, a collision short of a participant) appends none;
\* update_notifications removes the notifications whose age has reached
\* their display time, and no other.
C30_NotificationPerMessage ==
    [][/\ last'.op = "emit_event" =>
            /\ notifications' =
                IF event'.response.message.text # ""
                THEN Append(notifications,
                            [message |-> event'.response.message,
                             severity |-> event'.response.severity,
                             time |-> ticks, duration |-> 2000])
                ELSE notifications
            /\ Unanswered => notifications' = notifications
            /\ ~Unanswered => Len(notifications') = Len(notifications) + 1
       /\ last'.op = "update_notifications" =>
            notifications' =
                SelectSeq(notifications, LAMBDA n : ticks' - n.time < 2000)]_vars

\* two events with a message were emitted a second apart; the cleaning two
\* seconds after the first has removed its notification and kept the other
C30_Witness ==
    /\ last.op = "update_notifications"
    /\ Len(event_log) = 2
    /\ event_log[1].response.message.text # ""
    /\ event_log[1].timestamp = ticks - 2000
    /\ event_log[2].timestamp = ticks - 1000
    /\ Len(notifications) = 1
    /\ notifications[1].message = event_log[2].response.message
    /\ notifications[1].time = ticks - 1000

-----------------------------------------------------------------------------
(* Properties of events outside the tables of the handlers                 *)

ListedViolations == {"red_light", "speeding", "wrong_lane", "emergency_obstruction"}
ListedCongestions == {"low", "medium", "high", "critical"}
HandledKinds ==
    {"collision", "traffic_violation", "vehicle_passed", "smooth_flow",
     "perfect_timing", "power_up", "congestion"}

\* C31: an event outside the tables never fails: every emitted event comes
\* back handled and logged; a traffic violation of an unlisted subtype takes
\* the default 25 points under the default message; a congestion of an
\* unlisted level takes the default 10 points; an event of unknown kind is
\* offered to the whole chain, processed by the logger alone, and changes no
\* field of game_state.
C31_UnmappedFallsBack ==
    [][last'.op = "emit_event" =>
        /\ event'.handled
        /\ Len(event_log') = Len(event_log) + 1
        /\ event_log'[Len(event_log')].type = event'.event_type
        /\ (event'.event_type = "traffic_violation"
                /\ event'.data.type \notin ListedViolations) =>
            /\ game_state'.score = Clamped(game_state.score, 25)
            /\ game_state'.violations = game_state.violations + 1
            /\ OnlyChanges({"score", "violations"})
            /\ event'.response.penalty = 25
            /\ event'.response.message = Message("Infraccion -{penalty} puntos", 25)
        /\ (event'.event_type = "congestion"
                /\ event'.data.level \notin ListedCongestions \cup {"absent"}) =>
            /\ game_state'.score = Clamped(game_state.score, 10)
            /\ OnlyChanges({"score"})
            /\ event'.response.penalty = 10
        /\ event'.event_type \notin HandledKinds =>
            /\ OnlyChanges({})
            /\ dispatch'.offered = HandlerChain
            /\ dispatch'.processed = <<"LoggingHandler">>
            /\ event'.response = NoResponse
            /\ notifications' = notifications]_vars

\* after a violation of an unlisted subtype, an event of unknown kind has
\* been logged and has left the 75 points as they were
C31_Witness ==
    /\ Emitted
    /\ Len(event_log) = 2
    /\ event_log[1].type = "traffic_violation"
    /\ event_log[1].data.type = "parking"
    /\ event_log[1].response.penalty = 25
    /\ event.event_type = "unknown"
    /\ event.handled
    /\ game_state.score = 75
    /\ game_state.violations = 1

\* the participants of a collision record or event
Participants(data) == <<data.vehicle1, data.vehicle2>>

\* the penalty of a collision by the priority of its participants
PriorityPenalty(data) ==
    IF data.vehicle1.species = "emergency" \/ data.vehicle2.species = "emergency"
    THEN 300 ELSE 100

\* C32: a collision event changes only score, lives and collisions, as a
\* function of their current values and of the participants' priority: one
\* penalty, one life, one collision; an event that follows a collision of
\* the same participants gets the response the first one got.
C32_CollisionOnlyItsFields ==
    [][(last'.op = "emit_event" /\ event'.event_type = "collision") =>
        /\ OnlyChanges({"score", "lives", "collisions"})
        /\ (event'.data.vehicle1 # NoVehicle /\ event'.data.vehicle2 # NoVehicle) =>
            /\ game_state'.score =
                Clamped(game_state.score, PriorityPenalty(event'.data))
            /\ game_state'.lives = game_state.lives - 1
            /\ game_state'.collisions = game_state.collisions + 1
            /\ event'.response.penalty = PriorityPenalty(event'.data)
            /\ \A i \in 1..Len(event_log) :
                (event_log[i].type = "collision"
                    /\ Participants(event_log[i].data) = Participants(event'.data)) =>
                        event'.response = event_log[i].response
        /\ (event'.data.vehicle1 = NoVehicle \/ event'.data.vehicle2 = NoVehicle) =>
            OnlyChanges({})]_vars

\* two collisions of the same car and truck, one after the other, have each
\* taken 100 of 400 points and one of 5 lives
C32_Witness ==
    /\ Emitted
    /\ Len(event_log) = 2
    /\ \A i \in 1..2 :
        /\ event_log[i].type = "collision"
        /\ event_log[i].data.vehicle1.species = "car"
        /\ event_log[i].data.vehicle2.species = "truck"
        /\ event_log[i].response.penalty = 100
    /\ game_state.score = 200
    /\ game_state.lives = 3
    /\ game_state.collisions = 2

-----------------------------------------------------------------------------
(* Properties of the coordination                                          *)

\* the lights after the update of each of them and before the coordination
TimedLights(dt) ==
    [l \in TrafficLights |->
        IF lights[l].manual_override THEN lights[l] ELSE TimerRule(lights[l], dt)]

\* C33: the coordination of a controller update changes only vertical lights
\* that are automatic and Green, to Red with the elapsed time reset; it
\* leaves every horizontal light and every light in manual mode as the
\* update of the light left it, so lights held in manual mode stay as they
\* are, two perpendicular Greens included.
C33_CoordinationTouchesAutoVerticalGreen ==
    [][last'.op = "controller_update" =>
        /\ \E dt \in LightDts :
            LET timed == TimedLights(dt)
            IN  \A l \in TrafficLights :
                    /\ (l \in HorizontalLights \/ timed[l].manual_override
                            \/ timed[l].state # "GREEN") => lights'[l] = timed[l]
                    /\ lights'[l] # timed[l] =>
                        lights'[l] = [state |-> "RED", time_in_state |-> 0,
                                      manual_override |-> FALSE]
        /\ \A l \in TrafficLights :
            lights[l].manual_override => lights'[l] = lights[l]]_vars

\* a controller update has left a horizontal and a vertical light, both held
\* in manual mode, Green, while the automatic horizontal light turned Green
\* and the automatic vertical light was sent back to Red
C33_Witness ==
    /\ last.op = "controller_update"
    /\ lights["h1"].manual_override /\ lights["h1"].state = "GREEN"
    /\ lights["v1"].manual_override /\ lights["v1"].state = "GREEN"
    /\ Automatic("h2") /\ lights["h2"].state = "GREEN" /\ lights["h2"].time_in_state = 0
    /\ Automatic("v2") /\ lights["v2"].state = "RED" /\ lights["v2"].time_in_state = 0

-----------------------------------------------------------------------------
(* Properties of the power-ups                                             *)

\* the log records of the power-ups of subtype t
PowerUpsOf(t) ==
    {i \in 1..Len(event_log) :
        event_log[i].type = "power_up" /\ event_log[i].data.type = t}

\* the frame time, in milliseconds, since the last power-up of subtype t
SinceLast(t) ==
    LET newest == CHOOSE i \in PowerUpsOf(t) : \A j \in PowerUpsOf(t) : j <= i
    IN  ticks - event_log[newest].timestamp

\* C34: at the end of a frame the time_scale is 0.5 while less than 5 seconds
\* of frame delta-time have passed since the last slow_time and 1.0 from then
\* on, the multiplier is 2 while less than 10 seconds have passed since the
\* last score_multiplier and 1.0 from then on, and a modifier other than 1.0
\* has a remaining duration above 0.
C34_ModifiersLastTheirSeconds ==
    last.op = "update" =>
        /\ PowerUpsOf("slow_time") # {} =>
            game_state.time_scale =
                IF SinceLast("slow_time") < 5000 THEN 50 ELSE 100
        /\ PowerUpsOf("score_multiplier") # {} =>
            game_state.score_multiplier =
                IF SinceLast("score_multiplier") < 10000 THEN 200 ELSE 100
        /\ game_state.time_scale # 100 => game_state.power_up_duration > 0
        /\ game_state.score_multiplier # 100 => game_state.multiplier_duration > 0

\* the award of a species for a vehicle that passed
SpeciesAward(species) ==
    CASE species = "emergency" -> 30
      [] species = "bus" -> 20
      [] OTHER -> 10

\* C35: the points a vehicle_passed adds to the score are twice the award of
\* the species while score_multiplier is 2, and the plain award while it is 1.
C35_MultiplierDoublesAward ==
    [][(last'.op = "emit_event" /\ event'.event_type = "vehicle_passed"
            /\ event'.data.vehicle # NoVehicle) =>
        game_state'.score - game_state.score =
            (SpeciesAward(event'.data.vehicle.species) * game_state.score_multiplier)
                \div 100]_vars

-----------------------------------------------------------------------------
(* Properties of the scan for collisions                                   *)

\* the identities the collisions of a part of the log report
Collided(entries) ==
    UNION {Reported(entries[i]) :
            i \in {k \in 1..Len(entries) : entries[k].type = "collision"}}

\* C36: in the check_collisions of one frame every vehicle is a participant
\* of at most one collision event, so the frame takes at most one life for
\* every two participants, and no two vehicles left in the list collide.
C36_OneCollisionPerVehicle ==
    [][last'.op = "update" =>
        /\ \A id \in Collided(NewEntries) :
            Cardinality(CollidedOf(NewEntries, id)) <= 1
        /\ game_state.lives - game_state'.lives
                <= Cardinality(Collided(NewEntries)) \div 2
        /\ \A i, j \in 1..Len(vehicles') :
            i < j => ~PairCollides(vehicles'[i], vehicles'[j])]_vars

-----------------------------------------------------------------------------
(* Properties of a vehicle held at a light                                 *)

\* C37: a vehicle that stands (speed 0) and may not move in a frame is where
\* it was after the frame; so is a bus held at a light that is not green.
C37_StandingStaysPut ==
    [][(last'.op = "update_cannot_move" /\ vehicles[1].speed = 0) =>
        /\ vehicles'[1].x = vehicles[1].x
        /\ vehicles'[1].y = vehicles[1].y]_vars

\* the vehicle has left the gating zone of its approach on the side of the
\* intersection
BeyondGate(v) ==
    CASE v.direction = "right" -> v.x >= (WIDTH \div 2) - 50
      [] v.direction = "left" -> v.x <= (WIDTH \div 2) + 50
      [] v.direction = "down" -> v.y >= (HEIGHT \div 2) - 50
      [] v.direction = "up" -> v.y <= (HEIGHT \div 2) + 50

\* C38: while the light of its approach has not let pass since the vehicle
\* was upstream of its stop point, the vehicle does not leave the gating zone
\* on the side of the intersection.
C38_HeldBeforeIntersection ==
    \A i \in 1..Len(vehicles) :
        ~CanPass(lights[GatingLight(vehicles[i])]) => ~BeyondGate(vehicles[i])

-----------------------------------------------------------------------------
(* Properties of the lights left to their timers                           *)

\* C39: with the four lights automatic from Red and the controller updated
\* in every frame, each light, horizontal or vertical, is Green at the end
\* of infinitely many controller updates.
C39_NoAxisStarves ==
    \A l \in TrafficLights :
        []<>(last.op = "controller_update" /\ lights[l].state = "GREEN")

\* a controller update has ended with the vertical lights Green, the
\* horizontal lights having just left Green for Yellow
C39_Witness ==
    /\ last.op = "controller_update"
    /\ \A l \in TrafficLights : Automatic(l)
    /\ \A v \in VerticalLights : lights[v].state = "GREEN"
    /\ \A h \in HorizontalLights :
        lights[h].state = "YELLOW" /\ lights[h].time_in_state = 0

-----------------------------------------------------------------------------
(* Properties of the lights of a game                                      *)

\* light l has been cycled one step and no other light has changed
ClickedOn(l) ==
    lights' = [lights EXCEPT ![l] = [state |-> CyclicOrder[lights[l].state],
                                     time_in_state |-> 0,
                                     manual_override |-> TRUE]]

====
